---- MODULE Spec2Model ----
(***************************************************************************)
(* A model of kaddons' stored-data compatibility resolver                  *)
(* (internal/agent/agent.go).  Go strings are TLA+ strings; the Go         *)
(* standard-library string functions the resolver calls are operators that *)
(* compute what the library computes.  A Go map is a function together     *)
(* with the order in which one `range` statement happens to visit its      *)
(* keys; that order is chosen afresh, nondeterministically, by every       *)
(* `range`.                                                                *)
(***************************************************************************)
EXTENDS Integers, Sequences, FiniteSets, TLC

(***************************************************************************)
(* Go strings package                                                      *)
(***************************************************************************)

\* The characters the model's strings are drawn from, in byte order.
AsciiOrder == " +-.0123456789:=>ABCDEFGHIJKLMNOPQRSTUVWXYZabcdefghijklmnopqrstuvwxyz|"

UpperCase == "ABCDEFGHIJKLMNOPQRSTUVWXYZ"

LowerCase == "abcdefghijklmnopqrstuvwxyz"

Digits == "0123456789"

CharAt(s, i) == SubSeq(s, i, i)

CharsOf(s) == {CharAt(s, i) : i \in 1..Len(s)}

\* Each character's rank in byte order.
ByteTable ==
    [c \in CharsOf(AsciiOrder) |-> CHOOSE i \in 1..Len(AsciiOrder) : CharAt(AsciiOrder, i) = c]

ByteOf(c) == ByteTable[c]

DigitTable ==
    [c \in CharsOf(Digits) |-> (CHOOSE i \in 1..Len(Digits) : CharAt(Digits, i) = c) - 1]

IsDigit(c) == c \in DOMAIN DigitTable

DigitValue(c) == DigitTable[c]

LowerTable ==
    [c \in CharsOf(UpperCase) |->
        CharAt(LowerCase, CHOOSE i \in 1..Len(UpperCase) : CharAt(UpperCase, i) = c)]

HasPrefix(s, prefix) ==
    Len(prefix) <= Len(s) /\ SubSeq(s, 1, Len(prefix)) = prefix

HasSuffix(s, suffix) ==
    Len(suffix) <= Len(s) /\ SubSeq(s, Len(s) - Len(suffix) + 1, Len(s)) = suffix

TrimPrefix(s, prefix) ==
    IF HasPrefix(s, prefix) THEN SubSeq(s, Len(prefix) + 1, Len(s)) ELSE s

TrimSuffix(s, suffix) ==
    IF HasSuffix(s, suffix) THEN SubSeq(s, 1, Len(s) - Len(suffix)) ELSE s

\* strings.Index: 0-based offset of the first occurrence, -1 when none.
Index(s, sub) ==
    LET hits == {i \in 0..(Len(s) - Len(sub)) : SubSeq(s, i + 1, i + Len(sub)) = sub}
    IN  IF hits = {} THEN -1 ELSE CHOOSE i \in hits : \A j \in hits : i <= j

Contains(s, sub) == Index(s, sub) >= 0

RECURSIVE TrimLeftSpace(_)
TrimLeftSpace(s) ==
    IF Len(s) > 0 /\ CharAt(s, 1) \in {" ", "\n"} THEN TrimLeftSpace(SubSeq(s, 2, Len(s))) ELSE s

RECURSIVE TrimRightSpace(_)
TrimRightSpace(s) ==
    IF Len(s) > 0 /\ CharAt(s, Len(s)) \in {" ", "\n"}
    THEN TrimRightSpace(SubSeq(s, 1, Len(s) - 1))
    ELSE s

TrimSpace(s) == TrimRightSpace(TrimLeftSpace(s))

LowerChar(c) == IF c \in DOMAIN LowerTable THEN LowerTable[c] ELSE c

\* strings.ToLower on ASCII, by halves to keep the recursion shallow.
RECURSIVE ToLower(_)
ToLower(s) ==
    IF Len(s) = 0 THEN s
    ELSE IF Len(s) = 1 THEN LowerChar(s)
    ELSE ToLower(SubSeq(s, 1, Len(s) \div 2)) \o ToLower(SubSeq(s, Len(s) \div 2 + 1, Len(s)))

\* strings.Split(s, sep) for a non-empty sep.
RECURSIVE Split(_, _)
Split(s, sep) ==
    LET i == Index(s, sep)
    IN  IF i < 0 THEN <<s>>
        ELSE <<SubSeq(s, 1, i)>> \o Split(SubSeq(s, i + Len(sep) + 1, Len(s)), sep)

\* strings.SplitN(s, sep, n) for n > 0: at most n pieces, the last unsplit.
RECURSIVE SplitN(_, _, _)
SplitN(s, sep, n) ==
    LET i == Index(s, sep)
    IN  IF n <= 1 \/ i < 0 THEN <<s>>
        ELSE <<SubSeq(s, 1, i)>> \o SplitN(SubSeq(s, i + Len(sep) + 1, Len(s)), sep, n - 1)

\* strings.Join
RECURSIVE Join(_, _)
Join(parts, sep) ==
    IF Len(parts) = 0 THEN ""
    ELSE IF Len(parts) = 1 THEN parts[1]
    ELSE parts[1] \o sep \o Join(Tail(parts), sep)

\* Go's built-in string order: byte-wise, a proper prefix sorts first.
RECURSIVE StringLess(_, _)
StringLess(a, b) ==
    IF Len(b) = 0 THEN FALSE
    ELSE IF Len(a) = 0 THEN TRUE
    ELSE IF CharAt(a, 1) # CharAt(b, 1) THEN ByteOf(CharAt(a, 1)) < ByteOf(CharAt(b, 1))
    ELSE StringLess(SubSeq(a, 2, Len(a)), SubSeq(b, 2, Len(b)))

\* Number of leading decimal digits of s.
RECURSIVE DigitRun(_)
DigitRun(s) ==
    IF Len(s) > 0 /\ IsDigit(CharAt(s, 1)) THEN 1 + DigitRun(SubSeq(s, 2, Len(s))) ELSE 0

\* strconv.Atoi on a string of decimal digits.
RECURSIVE Atoi(_)
Atoi(s) ==
    IF Len(s) = 0 THEN 0
    ELSE Atoi(SubSeq(s, 1, Len(s) - 1)) * 10 + DigitValue(CharAt(s, Len(s)))

\* sort.Strings applied to a sequence of distinct strings.
SortStrings(seq) ==
    LET n == Len(seq)
        elems == {seq[i] : i \in 1..n}
    IN  CHOOSE q \in [1..n -> elems] :
            \A i \in 1..n : \A j \in 1..n : i < j => StringLess(q[i], q[j])

\* The orders in which one `range` over a map with key set S may visit it.
RangeOrders(S) ==
    {q \in [1..Cardinality(S) -> S] : \A i, j \in 1..Cardinality(S) : q[i] = q[j] => i = j}

(***************************************************************************)
(* internal/output: the tri-state verdict                                  *)
(***************************************************************************)

StatusTrue == "true"

StatusFalse == "false"

StatusUnknown == "unknown"

\* output.DataSourceStored: the mark resolveFromStoredData puts on its result.
DataSourceStored == "stored"

(***************************************************************************)
(* Version parsing and comparison                                          *)
(***************************************************************************)

\* The loop of parseAddonVersionFloor over the dot-separated segments: each
\* segment contributes its leading digits; the first segment that is empty or
\* has no leading digit ends the loop.
RECURSIVE FloorSegments(_)
FloorSegments(segments) ==
    IF Len(segments) = 0 THEN <<>>
    ELSE LET segment == Head(segments)
             digitEnd == DigitRun(segment)
         IN  IF segment = "" \/ digitEnd = 0 THEN <<>>
             ELSE <<Atoi(SubSeq(segment, 1, digitEnd))>> \o FloorSegments(Tail(segments))

\* The tail of parseAddonVersionFloor, from `if version == ""` on.
FloorOfTrimmed(version, parts) ==
    IF version = "" \/ Len(parts) = 0
    THEN [parts |-> <<>>, ok |-> FALSE]
    ELSE [parts |-> parts, ok |-> TRUE]

TrimFloorMarkers(rawVersion) ==
    TrimSuffix(
        TrimSuffix(
            TrimSpace(TrimPrefix(TrimPrefix(ToLower(TrimSpace(rawVersion)), ">="), "v")),
            ".x"),
        "+")

SplitFloor(version) == FloorOfTrimmed(version, FloorSegments(Split(version, ".")))

\* parseAddonVersionFloor: ([]int, bool) as [parts, ok]; nil is <<>>.
parseAddonVersionFloor(rawVersion) == SplitFloor(TrimFloorMarkers(rawVersion))

RECURSIVE compareAddonVersionFloors(_, _)
compareAddonVersionFloors(a, b) ==
    IF Len(a) = 0 /\ Len(b) = 0 THEN 0
    ELSE LET aPart == IF Len(a) > 0 THEN Head(a) ELSE 0
             bPart == IF Len(b) > 0 THEN Head(b) ELSE 0
         IN  IF aPart < bPart THEN -1
             ELSE IF aPart > bPart THEN 1
             ELSE compareAddonVersionFloors(IF Len(a) > 0 THEN Tail(a) ELSE a,
                                            IF Len(b) > 0 THEN Tail(b) ELSE b)

\* A faulty variant of normalizeK8sVersion: the patch component is kept.
normalizeK8sVersionKeepPatch(version) == TrimPrefix(version, "v")

MajorMinorOf(v, parts) ==
    IF Len(parts) >= 2 THEN parts[1] \o "." \o parts[2] ELSE v

SplitMajorMinor(v) == MajorMinorOf(v, SplitN(v, ".", 3))

\* normalizeK8sVersion: the major.minor portion of a K8s version string.
normalizeK8sVersion(version) == SplitMajorMinor(TrimPrefix(version, "v"))

parseLeadingInt(value) == Atoi(SubSeq(value, 1, DigitRun(value)))

Sign(x, y) == IF x < y THEN -1 ELSE IF x > y THEN 1 ELSE 0

\* A faulty variant of compareK8sVersions: Go's string comparison of the two versions.
compareK8sVersionsLexical(a, b) ==
    IF StringLess(a, b) THEN -1 ELSE IF StringLess(b, a) THEN 1 ELSE 0

CompareSplitK8s(a, b, aParts, bParts) ==
    IF Len(aParts) < 2 \/ Len(bParts) < 2
    THEN Sign(parseLeadingInt(a), parseLeadingInt(b))
    ELSE IF parseLeadingInt(aParts[1]) # parseLeadingInt(bParts[1])
    THEN Sign(parseLeadingInt(aParts[1]), parseLeadingInt(bParts[1]))
    ELSE Sign(parseLeadingInt(aParts[2]), parseLeadingInt(bParts[2]))

\* compareK8sVersions: -1, 0 or 1; major then minor as leading integers.
compareK8sVersions(a, b) == CompareSplitK8s(a, b, SplitN(a, ".", 2), SplitN(b, ".", 2))

supportsK8sVersion(supportedVersions, targetK8sVersion) ==
    \E i \in 1..Len(supportedVersions) :
        normalizeK8sVersion(supportedVersions[i]) = targetK8sVersion

appendSourceReference(note, sourceURL) ==
    IF sourceURL = "" \/ Contains(note, sourceURL) THEN note
    ELSE IF note = "" THEN "Source: " \o sourceURL
    ELSE note \o " Source: " \o sourceURL

(***************************************************************************)
(* Matrix keys                                                             *)
(***************************************************************************)

isNonSemverKey(key) ==
    IF key = "" THEN TRUE ELSE ~IsDigit(CharAt(key, 1))

RangeSides(key, dashIdx, left, right) ==
    IF dashIdx <= 0 \/ dashIdx >= Len(key) - 1 THEN [lo |-> "", hi |-> "", ok |-> FALSE]
    ELSE IF left = "" \/ right = "" THEN [lo |-> "", hi |-> "", ok |-> FALSE]
    ELSE IF ~IsDigit(CharAt(left, 1)) \/ ~IsDigit(CharAt(right, 1))
    THEN [lo |-> "", hi |-> "", ok |-> FALSE]
    ELSE IF ~Contains(left, ".") \/ ~Contains(right, ".")
    THEN [lo |-> "", hi |-> "", ok |-> FALSE]
    ELSE [lo |-> left, hi |-> right, ok |-> TRUE]

SplitAtDash(key, dashIdx) ==
    RangeSides(key, dashIdx,
               TrimPrefix(SubSeq(key, 1, dashIdx), "v"),
               TrimPrefix(SubSeq(key, dashIdx + 2, Len(key)), "v"))

\* parseVersionRangeKey: (lo, hi, ok) as a record.
parseVersionRangeKey(key) == SplitAtDash(key, Index(key, "-"))

FloorsInRangeExclusiveHigh(inst, loP, hiP) ==
    /\ inst.ok /\ loP.ok /\ hiP.ok
    /\ compareAddonVersionFloors(inst.parts, loP.parts) >= 0
    /\ compareAddonVersionFloors(inst.parts, hiP.parts) < 0

\* A faulty variant of versionInRange: the upper bound is exclusive.
versionInRangeExclusiveHigh(installed, lo, hi) ==
    FloorsInRangeExclusiveHigh(parseAddonVersionFloor(installed),
                               parseAddonVersionFloor(lo), parseAddonVersionFloor(hi))

FloorsInRange(inst, loP, hiP) ==
    /\ inst.ok /\ loP.ok /\ hiP.ok
    /\ compareAddonVersionFloors(inst.parts, loP.parts) >= 0
    /\ compareAddonVersionFloors(inst.parts, hiP.parts) <= 0

\* versionInRange: lo <= installed <= hi on the parsed floors.
versionInRange(installed, lo, hi) ==
    FloorsInRange(parseAddonVersionFloor(installed),
                  parseAddonVersionFloor(lo), parseAddonVersionFloor(hi))

InRangeKey(installedNorm, range) == versionInRange(installedNorm, range.lo, range.hi)

\* The body of matrixKeyMatchesInstalledVersion once both strings are normalised.
KeyMatchesNormalized(keyNorm, installedNorm) ==
    IF keyNorm = "" THEN FALSE
    ELSE IF isNonSemverKey(keyNorm) THEN FALSE
    ELSE IF parseVersionRangeKey(keyNorm).ok
    THEN InRangeKey(installedNorm, parseVersionRangeKey(keyNorm))
    ELSE IF \/ keyNorm = installedNorm
            \/ HasPrefix(installedNorm, keyNorm \o ".")
            \/ HasPrefix(installedNorm, keyNorm \o "-")
    THEN TRUE
    ELSE IF HasSuffix(keyNorm, ".x")
    THEN \/ installedNorm = TrimSuffix(keyNorm, ".x")
         \/ HasPrefix(installedNorm, TrimSuffix(keyNorm, ".x") \o ".")
    ELSE FALSE

matrixKeyMatchesInstalledVersion(matrixKey, installedVersion) ==
    KeyMatchesNormalized(TrimPrefix(ToLower(TrimSpace(matrixKey)), "v"),
                         ToLower(TrimPrefix(TrimSpace(installedVersion), "v")))

isSimpleSemverTriplet(version) ==
    /\ \A i \in 1..Len(version) : CharAt(version, i) = "." \/ IsDigit(CharAt(version, i))
    /\ Cardinality({i \in 1..Len(version) : CharAt(version, i) = "."}) = 2

PatchLineFloors(m, inst) ==
    IF ~m.ok \/ ~inst.ok \/ Len(m.parts) < 3 \/ Len(inst.parts) < 3 THEN FALSE
    ELSE IF m.parts[1] # inst.parts[1] \/ m.parts[2] # inst.parts[2] THEN FALSE
    ELSE compareAddonVersionFloors(inst.parts, m.parts) >= 0

isPatchLevelKeyCompatible(matrixKey, installedVersion) ==
    IF ~isSimpleSemverTriplet(matrixKey) THEN FALSE
    ELSE PatchLineFloors(parseAddonVersionFloor(matrixKey),
                         parseAddonVersionFloor(installedVersion))

\* The lines of scoreMatrixKeyMatch after its switch.
ScoreAfterSwitch(matrixKey, keyNorm, installedVersion) ==
    IF matrixKeyMatchesInstalledVersion(matrixKey, installedVersion)
    THEN [score |-> 50 + Len(keyNorm), matched |-> TRUE]
    ELSE [score |-> 0, matched |-> FALSE]

\* A faulty variant of ScoreSwitch: the wildcard case scores above the patch-line case.
ScoreSwitchWildcardAbovePatch(matrixKey, keyNorm, installedVersion, tier) ==
    IF tier = 1 THEN [score |-> 300 + Len(keyNorm), matched |-> TRUE]
    ELSE IF tier = 2 THEN [score |-> 200 + Len(keyNorm), matched |-> TRUE]
    ELSE IF tier = 3
    THEN IF \/ installedVersion = TrimSuffix(keyNorm, ".x")
            \/ HasPrefix(installedVersion, TrimSuffix(keyNorm, ".x") \o ".")
         THEN [score |-> 150 + Len(keyNorm), matched |-> TRUE]
         ELSE ScoreAfterSwitch(matrixKey, keyNorm, installedVersion)
    ELSE IF tier = 4 THEN [score |-> 100 + Len(keyNorm), matched |-> TRUE]
    ELSE ScoreAfterSwitch(matrixKey, keyNorm, installedVersion)

\* The switch of scoreMatrixKeyMatch: `tier` is the first case that holds (0
\* when none does); a case whose body returns nothing leaves the switch.
ScoreSwitch(matrixKey, keyNorm, installedVersion, tier) ==
    IF tier = 1 THEN [score |-> 300 + Len(keyNorm), matched |-> TRUE]
    ELSE IF tier = 2 THEN [score |-> 200 + Len(keyNorm), matched |-> TRUE]
    ELSE IF tier = 3
    THEN IF \/ installedVersion = TrimSuffix(keyNorm, ".x")
            \/ HasPrefix(installedVersion, TrimSuffix(keyNorm, ".x") \o ".")
         THEN [score |-> 100 + Len(keyNorm), matched |-> TRUE]
         ELSE ScoreAfterSwitch(matrixKey, keyNorm, installedVersion)
    ELSE IF tier = 4 THEN [score |-> 150 + Len(keyNorm), matched |-> TRUE]
    ELSE ScoreAfterSwitch(matrixKey, keyNorm, installedVersion)

SwitchCase(keyNorm, installedVersion) ==
    IF keyNorm = installedVersion THEN 1
    ELSE IF \/ HasPrefix(installedVersion, keyNorm \o ".")
            \/ HasPrefix(installedVersion, keyNorm \o "-")
    THEN 2
    ELSE IF HasSuffix(keyNorm, ".x") THEN 3
    ELSE IF isPatchLevelKeyCompatible(keyNorm, installedVersion) THEN 4
    ELSE 0

ScoreNormalized(matrixKey, keyNorm, installedVersion) ==
    IF keyNorm = "" THEN [score |-> 0, matched |-> FALSE]
    ELSE ScoreSwitch(matrixKey, keyNorm, installedVersion,
                     SwitchCase(keyNorm, installedVersion))

\* scoreMatrixKeyMatch: (int, bool) as [score, matched].
scoreMatrixKeyMatch(matrixKey, installedVersion) ==
    ScoreNormalized(matrixKey, TrimPrefix(ToLower(TrimSpace(matrixKey)), "v"),
                    installedVersion)

(***************************************************************************)
(* Matrix lookups.  `order` is the sequence in which the function's `range` *)
(* statement visits the keys of the matrix.                                *)
(***************************************************************************)

\* A faulty variant of sortedMatrixKeys: the keys are returned as ranged over.
sortedMatrixKeysUnsorted(matrix, order) == order

sortedMatrixKeys(matrix, order) == SortStrings(order)

\* One iteration of the loop of findDirectMatrixCompatibilityMatch; best is
\* <<bestKey, bestScore>>.
DirectStep(best, key, m) ==
    IF m.matched /\ m.score > best[2] THEN <<key, m.score>> ELSE best

RECURSIVE DirectLoop(_, _, _, _)
DirectLoop(keys, i, installedNorm, best) ==
    IF i > Len(keys) THEN best[1]
    ELSE DirectLoop(keys, i + 1, installedNorm,
                    DirectStep(best, keys[i], scoreMatrixKeyMatch(keys[i], installedNorm)))

DirectResult(matrix, installedNorm, bestKey) ==
    IF installedNorm = "" THEN [key |-> "", versions |-> <<>>, matched |-> FALSE]
    ELSE IF bestKey = "" THEN [key |-> "", versions |-> <<>>, matched |-> FALSE]
    ELSE [key |-> bestKey, versions |-> matrix[bestKey], matched |-> TRUE]

DirectBest(matrix, keys, installedNorm) ==
    DirectResult(matrix, installedNorm, DirectLoop(keys, 1, installedNorm, <<"", -1>>))

\* findDirectMatrixCompatibilityMatch: (string, []string, bool) as a record.
findDirectMatrixCompatibilityMatch(matrix, order, installedVersion) ==
    DirectBest(matrix, sortedMatrixKeys(matrix, order),
               ToLower(TrimPrefix(TrimSpace(installedVersion), "v")))

IsThresholdKey(normalizedKey) ==
    \/ HasPrefix(normalizedKey, ">=")
    \/ Contains(normalizedKey, ".x")
    \/ HasSuffix(normalizedKey, "+")

\* looksLikeThresholdStyleMatrix returns true at the first such key it meets,
\* so its result does not depend on the order of its `range`.
looksLikeThresholdStyleMatrix(matrix) ==
    \E key \in DOMAIN matrix : IsThresholdKey(ToLower(TrimSpace(key)))

\* A faulty variant of ThresholdStep: a key whose floor is above the installed
\* version is not skipped.
ThresholdStepAnyFloor(versions, targetK8sVersion, installedParts, best, key, k) ==
    IF ~supportsK8sVersion(versions, targetK8sVersion) THEN best
    ELSE IF ~k.ok THEN best
    ELSE IF best[2] = <<>> \/ compareAddonVersionFloors(k.parts, best[2]) > 0
    THEN <<key, k.parts>>
    ELSE best

\* One iteration of the loop of findThresholdCompatibilityMatch; best is
\* <<bestKey, bestParts>>, bestParts being <<>> while it is nil in the code.
ThresholdStep(versions, targetK8sVersion, installedParts, best, key, k) ==
    IF ~supportsK8sVersion(versions, targetK8sVersion) THEN best
    ELSE IF ~k.ok THEN best
    ELSE IF compareAddonVersionFloors(installedParts, k.parts) < 0 THEN best
    ELSE IF best[2] = <<>> \/ compareAddonVersionFloors(k.parts, best[2]) > 0
    THEN <<key, k.parts>>
    ELSE best

RECURSIVE ThresholdLoop(_, _, _, _, _, _)
ThresholdLoop(matrix, order, i, installedParts, targetK8sVersion, best) ==
    IF i > Len(order) THEN best[1]
    ELSE ThresholdLoop(matrix, order, i + 1, installedParts, targetK8sVersion,
                       ThresholdStep(matrix[order[i]], targetK8sVersion, installedParts,
                                     best, order[i], parseAddonVersionFloor(order[i])))

ThresholdResult(matrix, bestKey) ==
    IF bestKey = "" THEN [key |-> "", versions |-> <<>>, found |-> FALSE]
    ELSE [key |-> bestKey, versions |-> matrix[bestKey], found |-> TRUE]

ThresholdBest(matrix, order, inst, targetK8sVersion) ==
    IF ~inst.ok THEN [key |-> "", versions |-> <<>>, found |-> FALSE]
    ELSE ThresholdResult(matrix,
             ThresholdLoop(matrix, order, 1, inst.parts, targetK8sVersion, <<"", <<>>>>))

\* findThresholdCompatibilityMatch: (string, []string, bool) as a record.
findThresholdCompatibilityMatch(matrix, order, installedVersion, targetK8sVersion) ==
    IF ~looksLikeThresholdStyleMatrix(matrix)
    THEN [key |-> "", versions |-> <<>>, found |-> FALSE]
    ELSE ThresholdBest(matrix, order, parseAddonVersionFloor(installedVersion),
                       targetK8sVersion)

\* One iteration of the outer loop of findLatestCompatibleVersion; state is
\* <<latest, latestParts>>, latestParts being <<>> while it is nil in the code.
LatestStep(versions, k8sVersion, state, addonVersion, current) ==
    IF ~supportsK8sVersion(versions, k8sVersion) THEN state
    ELSE IF state[1] = ""
    THEN <<addonVersion, IF current.ok THEN current.parts ELSE state[2]>>
    ELSE IF state[2] # <<>> /\ current.ok
    THEN IF compareAddonVersionFloors(current.parts, state[2]) > 0
         THEN <<addonVersion, current.parts>>
         ELSE state
    ELSE IF state[2] = <<>> /\ current.ok
    THEN <<addonVersion, current.parts>>
    ELSE IF state[2] = <<>> /\ ~current.ok /\ StringLess(state[1], addonVersion)
    THEN <<addonVersion, state[2]>>
    ELSE state

RECURSIVE LatestLoop(_, _, _, _, _)
LatestLoop(matrix, order, i, k8sVersion, state) ==
    IF i > Len(order) THEN state[1]
    ELSE LatestLoop(matrix, order, i + 1, k8sVersion,
                    LatestStep(matrix[order[i]], k8sVersion, state, order[i],
                               parseAddonVersionFloor(order[i])))

findLatestCompatibleVersion(matrix, order, k8sVersion) ==
    LatestLoop(matrix, order, 1, k8sVersion, <<"", <<>>>>)

MinMaxVerdict(min, max, k8sMajorMinor, aboveMin, belowMax) ==
    IF aboveMin /\ belowMax
    THEN [produced |-> TRUE, Compatible |-> StatusTrue,
          Note |-> IF min # "" /\ max # ""
                   THEN "K8s " \o k8sMajorMinor \o " is within supported range "
                        \o min \o "-" \o max
                   ELSE IF min # ""
                   THEN "K8s " \o k8sMajorMinor \o " >= minimum required " \o min
                   ELSE "K8s " \o k8sMajorMinor \o " <= maximum supported " \o max]
    ELSE [produced |-> TRUE, Compatible |-> StatusFalse,
          Note |-> IF ~aboveMin
                   THEN "K8s " \o k8sMajorMinor \o " < minimum required " \o min
                   ELSE "K8s " \o k8sMajorMinor \o " > maximum supported " \o max]

MinMaxBounds(min, max, k8sMajorMinor) ==
    IF min = "" /\ max = ""
    THEN [produced |-> FALSE, Compatible |-> "", Note |-> ""]
    ELSE MinMaxVerdict(min, max, k8sMajorMinor,
             IF min # "" THEN compareK8sVersions(k8sMajorMinor, min) >= 0 ELSE TRUE,
             IF max # "" THEN compareK8sVersions(k8sMajorMinor, max) <= 0 ELSE TRUE)

\* resolveFromMinMaxVersion: the bool it returns is `produced`; Compatible and
\* Note are what it writes into *result when it returns true.
resolveFromMinMaxVersion(a, k8sMajorMinor) ==
    MinMaxBounds(a.KubernetesMinVersion, a.KubernetesMaxVersion, k8sMajorMinor)

(***************************************************************************)
(* Inputs: catalog entries, installed versions and target versions         *)
(***************************************************************************)

\* Largest number of keys of a compatibility matrix.
MaxMatrixKeys == 2

\* Families of matrix keys with the supported-version lists their keys may
\* carry: the match tiers of the direct match (exact, prefix, the same key with
\* a leading v, wildcard, patch line, range); threshold forms, three of which
\* tie on their floor; a branch name and the empty key, with the empty list;
\* ranges, one with a leading v on both sides and one key with a dash whose
\* right side has no dot.
KeyFamilies ==
    {[keys |-> {"1.9.5", "1.9", "v1.9", "1.9.x", "1.9.3", "1.9.5-1.10.1"},
      lists |-> {<<"1.30">>, <<"1.31.0", "1.32">>}],
     [keys |-> {"1.9", "1.9.x", "1.10.x", ">=1.9", "2.0+"},
      lists |-> {<<"1.30">>, <<"1.31.0", "1.32">>}],
     [keys |-> {"master", "", "1.9", "1.9.x"},
      lists |-> {<<"1.30">>, <<"1.31.0", "1.32">>, <<>>}],
     [keys |-> {"v1.10.1-v2.1.0", "1.9.5-7", "1.9.x"},
      lists |-> {<<"1.30">>, <<"1.31.0", "1.32">>}]}

InstalledVersionPool == {"v1.9.5", "1.10.1", "2.1.0", "master", ""}

TargetVersionPool == {"1.30", "v1.31.4", "1"}

BoundPool == {"", "1.9", "1.30", "1.31"}

SourceURL == "https://x.io/compat"

Matrices ==
    UNION {[keys -> f.lists] :
               <<f, keys>> \in {fk \in KeyFamilies \X SUBSET UNION {g.keys : g \in KeyFamilies} :
                                   /\ fk[2] \subseteq fk[1].keys
                                   /\ Cardinality(fk[2]) \in 1..MaxMatrixKeys}}

NoMatrix == [key \in {} |-> <<>>]

\* Entries with a matrix (and possibly a minimum version), and entries with
\* at most min/max bounds.
AddonPool ==
    {[KubernetesCompatibility |-> m, KubernetesMinVersion |-> min,
      KubernetesMaxVersion |-> "", CompatibilityMatrixURL |-> SourceURL] :
         m \in Matrices, min \in {"", "1.31"}}
    \cup
    {[KubernetesCompatibility |-> NoMatrix, KubernetesMinVersion |-> min,
      KubernetesMaxVersion |-> max, CompatibilityMatrixURL |-> url] :
         min \in BoundPool, max \in BoundPool, url \in {"", SourceURL}}

(***************************************************************************)
(* resolveFromStoredData as a state machine                                *)
(***************************************************************************)

VARIABLES
    addon,        \* info.DBMatch
    version,      \* info.Version, the installed version
    k8sVersion,   \* the target platform version
    pc,           \* position in resolveFromStoredData
    result,       \* the output.AddonCompatibility under construction
    matchedKey,   \* matchedKey / thresholdKey of resolveFromStoredData
    via,          \* the strategy that decided: direct, threshold, minmax, none
    previous,     \* what the previous invocation on the same inputs returned
    catalog,      \* the []Addon handed to NewMatcher, in storage order
    matcher,      \* the Matcher: entries and firstByLower
    name,         \* the detected name handed to Match
    lower,        \* Match's local `lower`
    mpc,          \* position in Match
    matches,      \* the []Addon Match returns
    returnedBy,   \* the pass whose return statement ended Match
    earlier,      \* what Match returned for the same entries in another order
    input,        \* pruneEvidenceText's input
    maxChars,     \* pruneEvidenceText's maxChars
    maxLines,     \* pruneEvidenceText's maxLines
    ppc,          \* position in pruneEvidenceText
    selected,     \* the keys of selectedByIndex
    pruned,       \* the string pruneEvidenceText returns
    workloads,    \* Run's bestByName entries in orderedAddonNames order
    apiKey,       \* Run's apiKey
    rpc,          \* position in Run and analyzeCompatibility
    storedResults, \* Run's storedResults
    runtimeAddons, \* Run's runtimeAddons, enriched
    results,      \* analyzeCompatibility's results
    interpreted,  \* the addons handed to analyzeSingleAddon, in call order
    emitted,      \* what was handed to output.FormatOutput
    returned,     \* the error Run returns
    detected,     \* Run's detected workloads
    detectedIndex, \* the element of detected the matching loop is at
    matchedAs,    \* dbName of each workload the loop has visited, "" for no match
    dpc,          \* position in Run's phases 1 and 2
    bestByName,   \* Run's bestByName
    before,       \* bestByName of a run on the same workloads in another order
    installedVersion, \* ResolveEOLStatus's installedVersion
    cycles,       \* ResolveEOLStatus's cycles
    epc,          \* position in ResolveEOLStatus
    eolStatus,    \* what ResolveEOLStatus returns
    policy,       \* RetryWithResult's policy
    cancelled,    \* whether ctx is done, and after how many calls of fn it was cancelled
    attempt,      \* RetryWithResult's attempt
    calls,        \* the outcomes of the calls of fn, in call order
    timerFired,   \* the backoff timer has fired
    rtpc,         \* position in RetryWithResult
    rtReturn,     \* what RetryWithResult returns
    tasks,        \* validate.Run's tasks, by URL
    vpc,          \* position of validate.Run
    gpc,          \* position of each task's goroutine
    sem,          \* number of tokens in the channel sem
    mu,           \* the task whose goroutine holds mu, 0 when it is free
    wg,           \* the counter of wg
    urlResults,   \* validate.Run's results map
    executed      \* number of executeTask calls made for each task

resolverVars == <<addon, version, k8sVersion, pc, result, matchedKey, via, previous>>

matcherVars == <<catalog, matcher, name, lower, mpc, matches, returnedBy, earlier>>

pruneVars == <<input, maxChars, maxLines, ppc, selected, pruned>>

pipelineVars ==
    <<workloads, apiKey, rpc, storedResults, runtimeAddons, results, interpreted,
      emitted, returned>>

dedupVars == <<detected, detectedIndex, matchedAs, dpc, bestByName, before>>

eolVars == <<installedVersion, cycles, epc, eolStatus>>

retryVars == <<policy, cancelled, attempt, calls, timerFired, rtpc, rtReturn>>

validateVars == <<tasks, vpc, gpc, sem, mu, wg, urlResults, executed>>

vars ==
    <<resolverVars, matcherVars, pruneVars, pipelineVars, dedupVars, eolVars,
      retryVars, validateVars>>

\* No resolver invocation is in progress.
ResolverIdle ==
    /\ addon = [KubernetesCompatibility |-> <<>>, KubernetesMinVersion |-> "",
                KubernetesMaxVersion |-> "", CompatibilityMatrixURL |-> ""]
    /\ version = ""
    /\ k8sVersion = ""
    /\ pc = "idle"
    /\ result = [InstalledVersion |-> "", Compatible |-> "",
                 LatestCompatibleVersion |-> "", Note |-> "", DataSource |-> ""]
    /\ matchedKey = ""
    /\ via = ""
    /\ previous = [invoked |-> FALSE]

\* No Matcher has been built.
MatcherIdle ==
    /\ catalog = <<>>
    /\ matcher = [entries |-> <<>>, firstByLower |-> <<>>]
    /\ name = ""
    /\ lower = ""
    /\ mpc = "idle"
    /\ matches = <<>>
    /\ returnedBy = ""
    /\ earlier = [invoked |-> FALSE]

\* pruneEvidenceText has not been called.
PruneIdle ==
    /\ input = ""
    /\ maxChars = 0
    /\ maxLines = 0
    /\ ppc = "idle"
    /\ selected = {}
    /\ pruned = ""

\* Run has not started.
PipelineIdle ==
    /\ workloads = <<>>
    /\ apiKey = ""
    /\ rpc = "idle"
    /\ storedResults = <<>>
    /\ runtimeAddons = <<>>
    /\ results = <<>>
    /\ interpreted = <<>>
    /\ emitted = <<>>
    /\ returned = ""

\* Phases 1 and 2 of Run have not started.
DedupIdle ==
    /\ detected = <<>>
    /\ detectedIndex = 0
    /\ matchedAs = <<>>
    /\ dpc = "idle"
    /\ bestByName = <<>>
    /\ before = [invoked |-> FALSE]

\* ResolveEOLStatus has not been called.
EOLIdle ==
    /\ installedVersion = ""
    /\ cycles = <<>>
    /\ epc = "idle"
    /\ eolStatus = <<>>

\* RetryWithResult has not been called.
RetryIdle ==
    /\ policy = [Attempts |-> 0, InitialDelay |-> 0, MaxDelay |-> 0, Multiplier |-> 0]
    /\ cancelled = [done |-> FALSE, after |-> 0]
    /\ attempt = 0
    /\ calls = <<>>
    /\ timerFired = FALSE
    /\ rtpc = "idle"
    /\ rtReturn = [value |-> "", err |-> ""]

\* validate.Run has not been called.
ValidateIdle ==
    /\ tasks = {}
    /\ vpc = "idle"
    /\ gpc = <<>>
    /\ sem = 0
    /\ mu = 0
    /\ wg = 0
    /\ urlResults = <<>>
    /\ executed = <<>>

\* The parts of the program outside the compatibility pipeline's later phases.
helperVars == <<eolVars, retryVars, validateVars>>

HelpersIdle == EOLIdle /\ RetryIdle /\ ValidateIdle

\* What a step of the resolver leaves alone.
OutsideResolver == <<matcherVars, pruneVars, pipelineVars, dedupVars, helperVars>>

NoResult ==
    [InstalledVersion |-> "", Compatible |-> "", LatestCompatibleVersion |-> "",
     Note |-> "", DataSource |-> ""]

NoPrevious == [invoked |-> FALSE]

matrix == addon.KubernetesCompatibility

k8sMajorMinor == normalizeK8sVersion(k8sVersion)

installedNorm == TrimPrefix(version, "v")

NewResult ==
    [InstalledVersion |-> version, Compatible |-> "", LatestCompatibleVersion |-> "",
     Note |-> "", DataSource |-> DataSourceStored]

\* finalizeResult: the note cites the entry's source URL.
finalizeResult(r) ==
    [r EXCEPT !.Note = appendSourceReference(r.Note, addon.CompatibilityMatrixURL)]

Init ==
    /\ addon \in AddonPool
    /\ version \in InstalledVersionPool
    /\ k8sVersion \in IF Cardinality(DOMAIN addon.KubernetesCompatibility) > 0
                      THEN TargetVersionPool \ {"1"}
                      ELSE TargetVersionPool
    /\ pc = "start"
    /\ result = NoResult
    /\ matchedKey = ""
    /\ via = ""
    /\ previous = NoPrevious
    /\ MatcherIdle
    /\ PruneIdle
    /\ PipelineIdle
    /\ DedupIdle
    /\ HelpersIdle

\* Lines 218-277 up to the first return or the threshold fallback: the direct
\* matrix match and, when it finds a key, the check of that key's list.
DirectMatch ==
    /\ pc = "start"
    /\ Cardinality(DOMAIN matrix) > 0
    /\ \E order \in RangeOrders(DOMAIN matrix) :
         \E d \in {findDirectMatrixCompatibilityMatch(matrix, order, installedNorm)} :
             IF ~d.matched
             THEN /\ pc' = "threshold"
                  /\ result' = NewResult
                  /\ UNCHANGED <<matchedKey, via>>
             ELSE IF supportsK8sVersion(d.versions, k8sMajorMinor)
             THEN /\ pc' = "done"
                  /\ result' = finalizeResult(
                        [NewResult EXCEPT
                            !.Compatible = StatusTrue,
                            !.Note = "Addon version " \o d.key \o " supports K8s "
                                     \o k8sMajorMinor \o " per stored matrix"])
                  /\ matchedKey' = d.key
                  /\ via' = "direct"
             ELSE /\ pc' = "latest"
                  /\ result' = [NewResult EXCEPT !.Compatible = StatusFalse]
                  /\ matchedKey' = d.key
                  /\ via' = "direct"
    /\ UNCHANGED <<addon, version, k8sVersion, previous>>
    /\ UNCHANGED OutsideResolver

\* A faulty variant of FallbackStrategy: the min/max bounds are consulted before
\* the threshold match.
FallbackStrategyMinMaxFirst(thresholdFound, minMaxProduced) ==
    IF minMaxProduced THEN "minmax"
    ELSE IF thresholdFound THEN "threshold"
    ELSE "none"

\* The order of the checks of lines 233-251 once the direct match has found
\* no key: `if thresholdFound`, then `if resolveFromMinMaxVersion(...)`.
FallbackStrategy(thresholdFound, minMaxProduced) ==
    IF thresholdFound THEN "threshold"
    ELSE IF minMaxProduced THEN "minmax"
    ELSE "none"

\* Lines 225-259 up to findLatestCompatibleVersion: the threshold fallback and,
\* when it finds no key, the min/max fallback.
ThresholdMatch ==
    /\ pc = "threshold"
    /\ \E order \in RangeOrders(DOMAIN matrix) :
         \E t \in {findThresholdCompatibilityMatch(matrix, order, installedNorm,
                                                    k8sMajorMinor)},
            mm \in {resolveFromMinMaxVersion(addon, k8sMajorMinor)} :
             IF FallbackStrategy(t.found, mm.produced) = "threshold"
             THEN /\ pc' = "latest"
                  /\ result' = [result EXCEPT
                        !.Compatible = StatusTrue,
                        !.Note = "Addon version " \o version \o " satisfies threshold "
                                 \o t.key \o " for K8s " \o k8sMajorMinor
                                 \o " per stored matrix"]
                  /\ matchedKey' = t.key
                  /\ via' = "threshold"
             ELSE IF FallbackStrategy(t.found, mm.produced) = "minmax"
             THEN /\ pc' = "done"
                  /\ result' = finalizeResult(
                        [result EXCEPT
                            !.Compatible = mm.Compatible,
                            !.Note = "Installed version " \o version
                                     \o " not found in stored matrix; " \o mm.Note])
                  /\ via' = "minmax"
                  /\ UNCHANGED matchedKey
             ELSE /\ pc' = "latest"
                  /\ result' = [result EXCEPT !.Compatible = StatusUnknown]
                  /\ via' = "none"
                  /\ UNCHANGED matchedKey
    /\ UNCHANGED <<addon, version, k8sVersion, previous>>
    /\ UNCHANGED OutsideResolver

\* The three calls of findLatestCompatibleVersion (lines 241, 252, 272) with
\* the note and the return that follow each.
LatestCompatible ==
    /\ pc = "latest"
    /\ \E order \in RangeOrders(DOMAIN matrix) :
         \E latestKey \in {findLatestCompatibleVersion(matrix, order, k8sMajorMinor)} :
             result' = finalizeResult(
                 IF via = "threshold"
                 THEN [result EXCEPT !.LatestCompatibleVersion = latestKey]
                 ELSE IF via = "none"
                 THEN [result EXCEPT
                          !.LatestCompatibleVersion = latestKey,
                          !.Note = IF latestKey # ""
                                   THEN "Installed version " \o version
                                        \o " not found in stored matrix. Latest version supporting K8s "
                                        \o k8sMajorMinor \o ": " \o latestKey
                                   ELSE "Installed version " \o version
                                        \o " not found in stored compatibility matrix"]
                 ELSE [result EXCEPT
                          !.LatestCompatibleVersion = latestKey,
                          !.Note = "Addon version " \o matchedKey \o " does not support K8s "
                                   \o k8sMajorMinor \o " per stored matrix (supports: "
                                   \o Join(matrix[matchedKey], ", ") \o ")"])
    /\ pc' = "done"
    /\ UNCHANGED <<addon, version, k8sVersion, matchedKey, via, previous>>
    /\ UNCHANGED OutsideResolver

\* Lines 280-287: no matrix, so min/max bounds or no data at all.
MinMaxOnly ==
    /\ pc = "start"
    /\ Cardinality(DOMAIN matrix) = 0
    /\ \E mm \in {resolveFromMinMaxVersion(addon, k8sMajorMinor)} :
           IF mm.produced
           THEN /\ result' = finalizeResult(
                      [NewResult EXCEPT !.Compatible = mm.Compatible, !.Note = mm.Note])
                /\ via' = "minmax"
           ELSE /\ result' = finalizeResult(
                      [NewResult EXCEPT
                          !.Compatible = StatusUnknown,
                          !.Note = "No stored compatibility data available"])
                /\ via' = "none"
    /\ pc' = "done"
    /\ UNCHANGED <<addon, version, k8sVersion, matchedKey, previous>>
    /\ UNCHANGED OutsideResolver

\* The resolver is invoked once more on the same inputs.
InvokeAgain ==
    /\ pc = "done"
    /\ ~previous.invoked
    /\ previous' = [invoked |-> TRUE, result |-> result, matchedKey |-> matchedKey,
                    via |-> via]
    /\ pc' = "start"
    /\ result' = NoResult
    /\ matchedKey' = ""
    /\ via' = ""
    /\ UNCHANGED <<addon, version, k8sVersion>>
    /\ UNCHANGED OutsideResolver

Next ==
    \/ DirectMatch
    \/ ThresholdMatch
    \/ LatestCompatible
    \/ MinMaxOnly
    \/ InvokeAgain

Spec == Init /\ [][Next]_vars

(***************************************************************************)
(* Properties of the resolver.  The notions the properties are stated in   *)
(* are defined here from their wording, apart from the functions above.    *)
(***************************************************************************)

\* resolveFromStoredData has returned.
Returned == pc = "done"

\* resolveFromStoredData has returned twice on the same inputs, each
\* invocation ranging over the matrix in orders of its own.
ReturnedTwice == pc = "done" /\ previous.invoked

\* The strategy that decides is known: the direct match has run.
Decided == pc \in {"latest", "done"}

\* A version string reduced to major.minor, a leading v dropped.
MajorMinor(v) ==
    LET parts == Split(TrimPrefix(v, "v"), ".")
    IN  IF Len(parts) >= 2 THEN Join(<<parts[1], parts[2]>>, ".") ELSE TrimPrefix(v, "v")

\* The target is in the supported-version list.
ListHasTarget(versions) ==
    \E i \in 1..Len(versions) : MajorMinor(versions[i]) = MajorMinor(k8sVersion)

NoEmptySegment(segments) == \A i \in 1..Len(segments) : segments[i] # ""

\* A string of digits and dots with no empty component.
IsNumericVersion(s) ==
    /\ s # ""
    /\ \A i \in 1..Len(s) : IsDigit(CharAt(s, i)) \/ CharAt(s, i) = "."
    /\ NoEmptySegment(Split(s, "."))

TupleOfSegments(segments) == [i \in 1..Len(segments) |-> Atoi(segments[i])]

\* The dot-separated integer tuple of a numeric version.
VersionTuple(s) == TupleOfSegments(Split(s, "."))

Component(t, i) == IF i <= Len(t) THEN t[i] ELSE 0

\* The places where two tuples differ, a missing component counting as zero.
Differing(a, b) ==
    {i \in 1..(IF Len(a) > Len(b) THEN Len(a) ELSE Len(b)) : Component(a, i) # Component(b, i)}

FirstOf(places) == CHOOSE i \in places : \A j \in places : i <= j

CompareAt(a, b, places) ==
    IF places = {} THEN 0
    ELSE IF Component(a, FirstOf(places)) < Component(b, FirstOf(places)) THEN -1
    ELSE 1

\* Left-to-right comparison of integer tuples: -1, 0 or 1.
CompareTuples(a, b) == CompareAt(a, b, Differing(a, b))

\* A matrix key and the installed version as the direct match compares them.
KeyNorm(key) == TrimPrefix(ToLower(TrimSpace(key)), "v")

InstalledForMatch == ToLower(TrimPrefix(TrimSpace(installedNorm), "v"))

\* The two sides of a normalized key with a dash, each without its leading v.
LeftOfDash(k) == TrimPrefix(SubSeq(k, 1, Index(k, "-")), "v")

RightOfDash(k) == TrimPrefix(SubSeq(k, Index(k, "-") + 2, Len(k)), "v")

NumericWithDot(side) == Contains(side, ".") /\ IsNumericVersion(side)

\* A two-sided range A-B: both sides numeric and containing a dot.
RangeForm(k) ==
    /\ Contains(k, "-")
    /\ NumericWithDot(LeftOfDash(k))
    /\ NumericWithDot(RightOfDash(k))

TupleBetween(lowTuple, tuple, highTuple) ==
    /\ CompareTuples(lowTuple, tuple) <= 0
    /\ CompareTuples(tuple, highTuple) <= 0

\* A <= installed <= B on integer tuples.
Within(k, inst) ==
    /\ IsNumericVersion(inst)
    /\ TupleBetween(VersionTuple(LeftOfDash(k)), VersionTuple(inst),
                    VersionTuple(RightOfDash(k)))

\* The tiers of the direct match, on a normalized key and installed version.
ExactTier(k, inst) == k # "" /\ k = inst

PrefixTier(k, inst) ==
    /\ k # ""
    /\ HasPrefix(inst, k \o ".") \/ HasPrefix(inst, k \o "-")

WildcardBase(base, inst) == inst = base \/ HasPrefix(inst, base \o ".")

WildcardTier(k, inst) == HasSuffix(k, ".x") /\ WildcardBase(TrimSuffix(k, ".x"), inst)

SamePatchLine(keyTuple, instTuple) ==
    /\ Len(keyTuple) = 3 /\ Len(instTuple) >= 3
    /\ keyTuple[1] = instTuple[1] /\ keyTuple[2] = instTuple[2]
    /\ CompareTuples(instTuple, keyTuple) >= 0

PatchLineTier(k, inst) ==
    /\ IsNumericVersion(k) /\ IsNumericVersion(inst)
    /\ SamePatchLine(VersionTuple(k), VersionTuple(inst))

RangeTier(k, inst) == RangeForm(k) /\ Within(k, inst)

\* The rank of the tier a key matches in, 0 when it matches in none; the
\* ranks of the wildcard and of the patch-line tier are given.
RankOfNormalized(k, inst, wildcardRank, patchLineRank) ==
    IF ExactTier(k, inst) THEN 5
    ELSE IF PrefixTier(k, inst) THEN 4
    ELSE IF WildcardTier(k, inst) THEN wildcardRank
    ELSE IF PatchLineTier(k, inst) THEN patchLineRank
    ELSE IF RangeTier(k, inst) THEN 1
    ELSE 0

TierRank(key, wildcardRank, patchLineRank) ==
    RankOfNormalized(KeyNorm(key), InstalledForMatch, wildcardRank, patchLineRank)

IsExactKey(key) == ExactTier(KeyNorm(key), InstalledForMatch)

IsPrefixKey(key) == PrefixTier(KeyNorm(key), InstalledForMatch)

IsWildcardKey(key) == WildcardTier(KeyNorm(key), InstalledForMatch)

IsPatchLineKey(key) == PatchLineTier(KeyNorm(key), InstalledForMatch)

IsRangeForm(key) == RangeForm(KeyNorm(key))

InstalledWithin(key) == Within(KeyNorm(key), InstalledForMatch)

IsRangeKey(key) == RangeTier(KeyNorm(key), InstalledForMatch)

\* A key with a dash whose right side has no dot.
IsDashKeyWithoutDot(key) ==
    Contains(KeyNorm(key), "-") /\ ~Contains(RightOfDash(KeyNorm(key)), ".")

\* Some key of the matrix matches the installed version in some tier.
DirectEligible ==
    /\ InstalledForMatch # ""
    /\ \E key \in DOMAIN matrix : TierRank(key, 3, 2) > 0

\* The numeric floor of a key or of the installed version.
HasFloor(rawVersion) == parseAddonVersionFloor(rawVersion).ok

Floor(rawVersion) == parseAddonVersionFloor(rawVersion).parts

UsesThresholdConvention(key) ==
    \/ HasPrefix(ToLower(TrimSpace(key)), ">=")
    \/ Contains(ToLower(TrimSpace(key)), ".x")
    \/ HasSuffix(ToLower(TrimSpace(key)), "+")

\* A key qualifies for the threshold fallback: its floor is at most the
\* installed version's and its list contains the target.
Qualifies(key) ==
    /\ ListHasTarget(matrix[key])
    /\ HasFloor(key) /\ HasFloor(installedNorm)
    /\ CompareTuples(Floor(key), Floor(installedNorm)) <= 0

ThresholdApplies ==
    /\ \E key \in DOMAIN matrix : UsesThresholdConvention(key)
    /\ \E key \in DOMAIN matrix : Qualifies(key)

HasBounds == addon.KubernetesMinVersion # "" \/ addon.KubernetesMaxVersion # ""

\* The verdict of the min/max bounds on integer tuples.
WithinBounds ==
    /\ \/ addon.KubernetesMinVersion = ""
       \/ CompareTuples(VersionTuple(MajorMinor(k8sVersion)),
                        VersionTuple(MajorMinor(addon.KubernetesMinVersion))) >= 0
    /\ \/ addon.KubernetesMaxVersion = ""
       \/ CompareTuples(VersionTuple(MajorMinor(k8sVersion)),
                        VersionTuple(MajorMinor(addon.KubernetesMaxVersion))) <= 0

Verdict(holds) == IF holds THEN StatusTrue ELSE StatusFalse

\* C1: for a fixed catalog entry, installed version and target version,
\* resolveFromStoredData returns the same verdict whatever order the keys of
\* the matrix are iterated in: two invocations on the same inputs, each
\* ranging over the matrix in orders of its own, return the same Compatible.
C1_VerdictIndependentOfKeyOrder ==
    ReturnedTwice => result.Compatible = previous.result.Compatible

\* C1 witness: two invocations over a matrix in which two keys tie on their
\* match score and carry different lists, one with the target and one without.
C1_TiedKeysWithDifferentLists ==
    /\ ReturnedTwice /\ via = "direct"
    /\ \E key \in DOMAIN matrix \ {matchedKey} :
           /\ scoreMatrixKeyMatch(key, InstalledForMatch).score
                  = scoreMatrixKeyMatch(matchedKey, InstalledForMatch).score
           /\ ListHasTarget(matrix[key]) # ListHasTarget(matrix[matchedKey])

\* C2: shuffling the iteration order of the matrix keys never changes the key
\* the resolver selects and cites, in the direct match and in the threshold
\* fallback alike, also when two keys tie: two invocations on the same inputs
\* are decided by the same strategy and select the same key.
C2_SelectedKeyIndependentOfKeyOrder ==
    ReturnedTwice =>
        /\ via = previous.via
        /\ matchedKey = previous.matchedKey

\* C3: whenever the direct matrix match finds a best key, the verdict is true
\* if and only if the target, normalized to major.minor, equals the normalized
\* form of some entry of that key's list, and false otherwise; never unknown.
C3_DirectMatchVerdict ==
    (Returned /\ via = "direct") =>
        result.Compatible = Verdict(ListHasTarget(matrix[matchedKey]))

\* C3 witness: the direct match decided true for a target with a patch
\* component against a list entry with another patch component.
C3_DirectMatchOnNormalizedTarget ==
    /\ Returned /\ via = "direct"
    /\ result.Compatible = StatusTrue
    /\ k8sVersion = "v1.31.4"
    /\ \A i \in 1..Len(matrix[matchedKey]) : matrix[matchedKey][i] # "1.31"

\* C4: the strategies apply in strict precedence (direct matrix match, then
\* threshold fallback, then min/max bounds, then no-data unknown) and the first
\* that yields a verdict wins; the bounds influence the verdict only when
\* neither matrix strategy produced one, so a matched key that excludes the
\* target gives false even when the target lies inside the bounds.
C4_StrictPrecedence ==
    Returned =>
        /\ via = "direct" <=> DirectEligible
        /\ via = "threshold" <=> (~DirectEligible /\ ThresholdApplies)
        /\ via = "minmax" <=> (~DirectEligible /\ ~ThresholdApplies /\ HasBounds)
        /\ via = "none" <=> (~DirectEligible /\ ~ThresholdApplies /\ ~HasBounds)
        /\ via = "direct" => result.Compatible = Verdict(ListHasTarget(matrix[matchedKey]))
        /\ via = "threshold" => result.Compatible = StatusTrue
        /\ via = "none" => result.Compatible = StatusUnknown

\* C4 witness: the matched key excludes the target, the target lies inside the
\* entry's bounds, and the verdict is false.
C4_MatrixBeforeBounds ==
    /\ Returned /\ via = "direct"
    /\ HasBounds /\ WithinBounds
    /\ result.Compatible = StatusFalse

\* C5 as amended: the direct match selects by tier, exact equality above a
\* numeric-prefix key above a patch-line triplet key above a '.x' wildcard key
\* above a two-sided range key; among the keys of the matrix (all shorter than
\* the 50 points that separate two tiers) a key of a lower tier is never
\* selected while a key of a higher tier matches.
C5_TierPrecedencePatchLineAboveWildcard ==
    (Decided /\ via = "direct") =>
        /\ TierRank(matchedKey, 2, 3) > 0
        /\ \A key \in DOMAIN matrix : TierRank(key, 2, 3) <= TierRank(matchedKey, 2, 3)

\* C5 witness: a wildcard key and a patch-line key both match and the
\* patch-line key is selected.
C5_PatchLineSelectedOverWildcard ==
    /\ Decided /\ via = "direct"
    /\ IsPatchLineKey(matchedKey) /\ ~IsExactKey(matchedKey)
    /\ \E key \in DOMAIN matrix : IsWildcardKey(key)

\* C5 as stated: a '.x' wildcard key beats a patch-line triplet key, so no
\* key of a lower tier is selected while a key of a higher tier matches.
C5_TierPrecedenceWildcardAbovePatchLine ==
    (Decided /\ via = "direct") =>
        /\ TierRank(matchedKey, 3, 2) > 0
        /\ \A key \in DOMAIN matrix : TierRank(key, 3, 2) <= TierRank(matchedKey, 3, 2)

\* C6: in the direct matrix match a key that does not begin with a digit (a
\* branch name or label such as master, once a leading v is dropped) is never
\* eligible: for every installed version string, numeric or not, it is never
\* selected as the best key and never determines the verdict.
C6_NonDigitKeyNeverSelected ==
    (Decided /\ via = "direct") =>
        /\ KeyNorm(matchedKey) # ""
        /\ IsDigit(CharAt(KeyNorm(matchedKey), 1))

\* C7: every version-ordering decision compares dot-separated integer tuples
\* left to right, a missing trailing component counting as zero, and none is
\* made lexically: the min/max verdict is the tuple comparison of the target
\* with the bounds, the threshold key has the greatest floor among the keys
\* that qualify, and no key listing the target has a greater floor than the
\* latest compatible key.
C7_OrderingByIntegerTuples ==
    Returned =>
        /\ (via = "minmax" /\ IsNumericVersion(MajorMinor(k8sVersion)))
               => result.Compatible = Verdict(WithinBounds)
        /\ via = "threshold"
               => \A key \in DOMAIN matrix :
                      Qualifies(key) => CompareTuples(Floor(key), Floor(matchedKey)) <= 0
        /\ (result.LatestCompatibleVersion # "" /\ HasFloor(result.LatestCompatibleVersion))
               => \A key \in DOMAIN matrix :
                      (HasFloor(key) /\ ListHasTarget(matrix[key]))
                          => CompareTuples(Floor(key), Floor(result.LatestCompatibleVersion)) <= 0

\* C8: the threshold fallback decides only when the direct match found no key
\* and some key (trimmed, in lower case) starts with '>=', contains '.x' or
\* ends with '+'; it then yields true, citing a key that qualifies and whose
\* floor is the greatest among the keys that qualify; when no key qualifies it
\* yields no verdict; it never yields false.
C8_ThresholdFallback ==
    Returned =>
        /\ via = "threshold" =>
              /\ ~DirectEligible
              /\ \E key \in DOMAIN matrix : UsesThresholdConvention(key)
              /\ result.Compatible = StatusTrue
              /\ matchedKey \in DOMAIN matrix /\ Qualifies(matchedKey)
              /\ \A key \in DOMAIN matrix :
                     Qualifies(key) => CompareTuples(Floor(key), Floor(matchedKey)) <= 0
              /\ Contains(result.Note, "satisfies threshold " \o matchedKey \o " for")
        /\ (~DirectEligible /\ ThresholdApplies) => via = "threshold"
        /\ (\A key \in DOMAIN matrix : ~Qualifies(key)) => via # "threshold"

\* C8 witness: two keys qualify, and the one with the greater floor is cited.
C8_GreatestQualifyingFloorCited ==
    /\ Returned /\ via = "threshold"
    /\ \E key \in DOMAIN matrix :
           Qualifies(key) /\ CompareTuples(Floor(key), Floor(matchedKey)) < 0

C10_RangeKeyInclusive ==
    pc # "start" =>
        /\ \A key \in DOMAIN matrix :
               /\ IsRangeForm(key) =>
                      (matrixKeyMatchesInstalledVersion(key, installedNorm)
                           <=> InstalledWithin(key))
               /\ IsDashKeyWithoutDot(key) =>
                      (matrixKeyMatchesInstalledVersion(key, installedNorm)
                           <=> (IsExactKey(key) \/ IsPrefixKey(key)))
        /\ (\E key \in DOMAIN matrix : IsRangeKey(key)) => via = "direct"
        /\ (via = "direct" /\ IsRangeForm(matchedKey)) => InstalledWithin(matchedKey)
        /\ via = "direct" => ~IsDashKeyWithoutDot(matchedKey)

\* C10 witness: the installed version equals the upper bound of a range key
\* written with a leading v on both sides, and that key is selected.
C10_UpperBoundIncluded ==
    /\ Decided /\ via = "direct"
    /\ IsRangeForm(matchedKey)
    /\ RightOfDash(KeyNorm(matchedKey)) = InstalledForMatch
    /\ HasPrefix(matchedKey, "v")

\* The matrix keys other than the selected one whose list holds the target.
OtherKeysWithTarget ==
    {key \in DOMAIN matrix \ {matchedKey} : ListHasTarget(matrix[key])}

\* No key of the set has a numeric floor above the floor of this one.
GreatestByFloor(latest, keys) ==
    \A key \in keys :
        (HasFloor(key) /\ HasFloor(latest)) =>
            CompareTuples(Floor(key), Floor(latest)) <= 0

\* C11: whenever the direct match selects a key, with a true or a false
\* verdict, LatestCompatibleVersion is the numerically greatest other key whose
\* list holds the target, and it is empty only when there is no such key.
C11_LatestIsGreatestOtherKey ==
    (Returned /\ via = "direct") =>
        /\ result.LatestCompatibleVersion = "" <=> OtherKeysWithTarget = {}
        /\ OtherKeysWithTarget # {} =>
               /\ result.LatestCompatibleVersion \in OtherKeysWithTarget
               /\ GreatestByFloor(result.LatestCompatibleVersion, OtherKeysWithTarget)

\* The well-formed entries of the matrix: a non-empty key with a non-empty list.
WellFormedKeys == {key \in DOMAIN matrix : key # "" /\ matrix[key] # <<>>}

\* What the resolver returns for the same entry without its matrix.
ResultWithoutMatrix(mm) ==
    finalizeResult(
        [NewResult EXCEPT
            !.Compatible = IF mm.produced THEN mm.Compatible ELSE StatusUnknown,
            !.Note = IF mm.produced THEN mm.Note
                     ELSE "No stored compatibility data available"])

\* C12: an entry with an empty key or an empty list is never the selected key
\* of the direct or the threshold match, and a matrix that holds only such
\* entries gives the result the entry would have without a matrix.
C12_MalformedEntryNeverMatches ==
    (Returned /\ DOMAIN matrix # {}) =>
        /\ via \in {"direct", "threshold"} => matchedKey \in WellFormedKeys
        /\ WellFormedKeys = {} =>
               result = ResultWithoutMatrix(resolveFromMinMaxVersion(addon, k8sMajorMinor))

(***************************************************************************)
(* internal/addon: the catalog matcher                                     *)
(***************************************************************************)

\* strings.ReplaceAll for a one-byte old.
RECURSIVE ReplaceAll(_, _, _)
ReplaceAll(s, old, new) ==
    IF Len(s) = 0 THEN s
    ELSE IF Len(s) = 1 THEN (IF s = old THEN new ELSE s)
    ELSE ReplaceAll(SubSeq(s, 1, Len(s) \div 2), old, new)
             \o ReplaceAll(SubSeq(s, Len(s) \div 2 + 1, Len(s)), old, new)

\* strings.Fields: the maximal runs of non-space bytes.
Fields(s) == SelectSeq(Split(s, " "), LAMBDA piece : piece # "")

\* strings.LastIndex: 0-based offset of the last occurrence, -1 when none.
LastIndex(s, sub) ==
    LET hits == {i \in 0..(Len(s) - Len(sub)) : SubSeq(s, i + 1, i + Len(sub)) = sub}
    IN  IF hits = {} THEN -1 ELSE CHOOSE i \in hits : \A j \in hits : i >= j

addonAliases ==
    ("nodelocaldns" :> "nodelocal dnscache") @@ ("node-local-dns" :> "nodelocal dnscache")

componentRoleSuffixes ==
    {"node", "controller", "master", "replica", "replicas", "server", "agent",
     "webhook", "init", "snapshotter", "operator", "scheduler", "driver"}

AmazonToAws(n) ==
    IF HasPrefix(n, "amazon ") THEN "aws " \o SubSeq(n, Len("amazon ") + 1, Len(n)) ELSE n

normalizeName(rawName) ==
    AmazonToAws(Join(Fields(ReplaceAll(ToLower(rawName), "-", " ")), " "))

\* A faulty variant of StripAt: no word is taken for a role suffix.
StripAtNothing(normalized, idx) == [core |-> normalized, stripped |-> FALSE]

\* stripRoleSuffix: (string, bool) as a record.
StripAt(normalized, idx) ==
    IF idx <= 0 THEN [core |-> normalized, stripped |-> FALSE]
    ELSE IF SubSeq(normalized, idx + 2, Len(normalized)) \in componentRoleSuffixes
    THEN [core |-> SubSeq(normalized, 1, idx), stripped |-> TRUE]
    ELSE [core |-> normalized, stripped |-> FALSE]

stripRoleSuffix(normalized) == StripAt(normalized, LastIndex(normalized, " "))

WordsOf(words) == {words[i] : i \in 1..Len(words)}

wordSubsetMatch(subset, superset) == WordsOf(Fields(subset)) \subseteq WordsOf(Fields(superset))

\* NewMatcher: entries in storage order; firstByLower keeps, for each lowercase
\* name, the first entry that has it.
LowerNames(addons) == [i \in 1..Len(addons) |-> ToLower(addons[i].Name)]

FirstIndexOf(lowerNames, lowerName) ==
    CHOOSE i \in 1..Len(lowerNames) :
        lowerNames[i] = lowerName /\ \A j \in 1..(i - 1) : lowerNames[j] # lowerName

BuildMatcher(addons, lowerNames) ==
    [entries |-> [i \in 1..Len(addons) |-> [addon |-> addons[i], lowerName |-> lowerNames[i]]],
     firstByLower |-> [lowerName \in WordsOf(lowerNames) |->
                          addons[FirstIndexOf(lowerNames, lowerName)]]]

NewMatcher(addons) == BuildMatcher(addons, LowerNames(addons))

\* The condition of the forward-prefix loop for one entry and one candidate.
ForwardHit(lowerName, candidate) ==
    HasPrefix(lowerName, candidate \o " ") \/ HasPrefix(lowerName, candidate \o "-")

\* The condition of the reverse-prefix loop for one entry.
ReverseHit(lowerName, normalized) ==
    /\ Len(lowerName) >= 4
    /\ HasPrefix(normalized, lowerName \o " ") \/ HasPrefix(normalized, lowerName \o "-")

AddonsOf(entries) == [i \in 1..Len(entries) |-> entries[i].addon]

\* The inner loop of pass 4 for one candidate.
ForwardMatches(entries, candidate) ==
    AddonsOf(SelectSeq(entries, LAMBDA entry : ForwardHit(entry.lowerName, candidate)))

\* A faulty variant of ForwardPrefix: the matches of all candidates together.
RECURSIVE ForwardPrefixMerged(_, _)
ForwardPrefixMerged(entries, candidates) ==
    IF Len(candidates) = 0 THEN <<>>
    ELSE ForwardMatches(entries, Head(candidates))
             \o ForwardPrefixMerged(entries, Tail(candidates))

\* Pass 4: the matches of the first candidate that has any.
RECURSIVE ForwardPrefix(_, _)
ForwardPrefix(entries, candidates) ==
    IF Len(candidates) = 0 THEN <<>>
    ELSE IF Len(ForwardMatches(entries, Head(candidates))) > 0
    THEN ForwardMatches(entries, Head(candidates))
    ELSE ForwardPrefix(entries, Tail(candidates))

\* Pass 5.
ReversePrefix(entries, normalized) ==
    AddonsOf(SelectSeq(entries, LAMBDA entry : ReverseHit(entry.lowerName, normalized)))

\* Pass 6.
WordSubset(entries, core) ==
    IF Len(Fields(core)) >= 2
    THEN AddonsOf(SelectSeq(entries, LAMBDA entry : wordSubsetMatch(core, entry.lowerName)))
    ELSE <<>>

(***************************************************************************)
(* Catalogs and detected names                                             *)
(***************************************************************************)

MaxCatalog == 2

\* Entry names a catalog of the model draws from, one family at a time: names
\* that share their lowercase form or a prefix, written with hyphens and with
\* spaces; names that word-subset, alias, role-suffix and short-name lookups meet.
CatalogFamilies ==
    {{"cert-manager", "Cert-Manager", "cert-manager-csi-driver", "Cert Manager Trust"},
     {"AWS EBS CSI Driver", "EBS CSI Snapshots", "aws-alb-controller", "AWS", "Redis"},
     {"NodeLocal DNSCache", "NodeLocal DNSCache Operator"}}

DetectedNames ==
    {"ebs-csi-node", "aws", "cert", "cert-manager", "nodelocaldns", "redis-master",
     "amazon-ebs-csi-driver", "redis-cluster"}

\* The storage orders of the catalogs: sequences of distinct entries.
Catalogs ==
    UNION {{[i \in 1..n |-> [Name |-> q[i]]] :
               q \in {r \in [1..n -> family] : \A i, j \in 1..n : r[i] = r[j] => i = j}} :
           <<family, n>> \in CatalogFamilies \X (1..MaxCatalog)}

\* The same entries in the other storage orders.
Reorderings(addons) ==
    {[i \in 1..Len(addons) |-> addons[q[i]]] : q \in RangeOrders(1..Len(addons))}
        \ {addons}

(***************************************************************************)
(* Matcher.Match as a state machine                                        *)
(***************************************************************************)

normalized == normalizeName(name)

core == stripRoleSuffix(normalized).core

stripped == stripRoleSuffix(normalized).stripped

NotReturned == [invoked |-> FALSE]

\* What a step of the matcher leaves alone.
OutsideMatcher == <<resolverVars, pruneVars, pipelineVars, dedupVars, helperVars>>

MatchInit ==
    /\ catalog \in Catalogs
    /\ matcher = NewMatcher(catalog)
    /\ name \in DetectedNames
    /\ lower = ""
    /\ mpc = "alias"
    /\ matches = <<>>
    /\ returnedBy = ""
    /\ earlier = NotReturned
    /\ ResolverIdle
    /\ PruneIdle
    /\ PipelineIdle
    /\ DedupIdle
    /\ HelpersIdle

\* A return statement of Match.
Return(found, pass) ==
    /\ matches' = found
    /\ returnedBy' = pass
    /\ mpc' = "returned"

\* Match goes on to its next pass.
Continue(pass) ==
    /\ mpc' = pass
    /\ UNCHANGED <<matches, returnedBy>>

\* Lines 242-247, pass 0: lower and its alias.
PassAlias ==
    /\ mpc = "alias"
    /\ lower' = IF ToLower(name) \in DOMAIN addonAliases
                THEN addonAliases[ToLower(name)]
                ELSE ToLower(name)
    /\ Continue("exact")
    /\ UNCHANGED <<catalog, matcher, name, earlier>>
    /\ UNCHANGED OutsideMatcher

\* Lines 249-252, pass 1.
PassExact ==
    /\ mpc = "exact"
    /\ IF lower \in DOMAIN matcher.firstByLower
       THEN Return(<<matcher.firstByLower[lower]>>, "exact")
       ELSE Continue("normalized")
    /\ UNCHANGED <<catalog, matcher, name, lower, earlier>>
    /\ UNCHANGED OutsideMatcher

\* Lines 254-260, pass 2.
PassNormalized ==
    /\ mpc = "normalized"
    /\ IF normalized # lower /\ normalized \in DOMAIN matcher.firstByLower
       THEN Return(<<matcher.firstByLower[normalized]>>, "normalized")
       ELSE Continue("stripped")
    /\ UNCHANGED <<catalog, matcher, name, lower, earlier>>
    /\ UNCHANGED OutsideMatcher

\* Lines 262-268, pass 3.
PassRoleStripped ==
    /\ mpc = "stripped"
    /\ IF stripped /\ core \in DOMAIN matcher.firstByLower
       THEN Return(<<matcher.firstByLower[core]>>, "stripped")
       ELSE Continue("guard")
    /\ UNCHANGED <<catalog, matcher, name, lower, earlier>>
    /\ UNCHANGED OutsideMatcher

\* A faulty variant of IsShortName: only names under three bytes are short.
IsShortNameUnderThree(n) == Len(n) < 3

\* Line 271: len(normalized) < 4.
IsShortName(n) == Len(n) < 4

\* Lines 270-273: no fuzzy pass for a short name.
ShortNameGuard ==
    /\ mpc = "guard"
    /\ IF IsShortName(normalized)
       THEN Return(<<>>, "guard")
       ELSE Continue("forward")
    /\ UNCHANGED <<catalog, matcher, name, lower, earlier>>
    /\ UNCHANGED OutsideMatcher

\* Lines 275-286, pass 4.
PassForwardPrefix ==
    /\ mpc = "forward"
    /\ \E found \in {ForwardPrefix(matcher.entries, <<lower, normalized, core>>)} :
           IF Len(found) > 0 THEN Return(found, "forward") ELSE Continue("reverse")
    /\ UNCHANGED <<catalog, matcher, name, lower, earlier>>
    /\ UNCHANGED OutsideMatcher

\* Lines 288-299, pass 5.
PassReversePrefix ==
    /\ mpc = "reverse"
    /\ \E found \in {ReversePrefix(matcher.entries, normalized)} :
           IF Len(found) > 0 THEN Return(found, "reverse") ELSE Continue("subset")
    /\ UNCHANGED <<catalog, matcher, name, lower, earlier>>
    /\ UNCHANGED OutsideMatcher

\* Lines 301-309, pass 6 and the last return.
PassWordSubset ==
    /\ mpc = "subset"
    /\ Return(WordSubset(matcher.entries, core), "subset")
    /\ UNCHANGED <<catalog, matcher, name, lower, earlier>>
    /\ UNCHANGED OutsideMatcher

\* A Matcher is built from the same entries stored in another order and asked
\* for the same name.
MatchReordered ==
    /\ mpc = "returned"
    /\ ~earlier.invoked
    /\ \E reordered \in Reorderings(catalog) :
           /\ catalog' = reordered
           /\ matcher' = NewMatcher(reordered)
    /\ earlier' = [invoked |-> TRUE, matches |-> matches, returnedBy |-> returnedBy]
    /\ mpc' = "alias"
    /\ lower' = ""
    /\ matches' = <<>>
    /\ returnedBy' = ""
    /\ UNCHANGED name
    /\ UNCHANGED OutsideMatcher

MatchNext ==
    \/ PassAlias
    \/ PassExact
    \/ PassNormalized
    \/ PassRoleStripped
    \/ ShortNameGuard
    \/ PassForwardPrefix
    \/ PassReversePrefix
    \/ PassWordSubset
    \/ MatchReordered

MatchSpec == MatchInit /\ [][MatchNext]_vars

(***************************************************************************)
(* Properties of the matcher, stated on the catalog in its storage order.  *)
(***************************************************************************)

\* Match has returned.
MatchReturned == mpc = "returned"

\* Match has returned for the same entries stored in two orders.
MatchReturnedTwice == mpc = "returned" /\ earlier.invoked

Passes ==
    <<"alias", "exact", "normalized", "stripped", "guard", "forward", "reverse", "subset">>

\* The pass that follows a pass in the fixed order.
After(pass) ==
    IF pass = "subset" THEN "returned"
    ELSE Passes[(CHOOSE i \in 1..Len(Passes) : Passes[i] = pass) + 1]

LowerOf(entry) == ToLower(entry.Name)

\* The detected name in lower case, and after the alias table.
RawLower == ToLower(name)

AliasResolved ==
    IF RawLower \in DOMAIN addonAliases THEN addonAliases[RawLower] ELSE RawLower

\* The exact lookup: the first stored entry of that lowercase name, if any.
Named(lowerName) == SelectSeq(catalog, LAMBDA entry : LowerOf(entry) = lowerName)

FirstNamed(lowerName) ==
    IF Len(Named(lowerName)) = 0 THEN <<>> ELSE <<Head(Named(lowerName))>>

\* The entries whose lowercase name starts with the candidate and a separator.
PrefixedBy(candidate) ==
    SelectSeq(catalog, LAMBDA entry :
        \/ HasPrefix(LowerOf(entry), candidate \o " ")
        \/ HasPrefix(LowerOf(entry), candidate \o "-"))

\* The entries of the first candidate that any entry starts with.
RECURSIVE FirstCandidateEntries(_)
FirstCandidateEntries(candidates) ==
    IF Len(candidates) = 0 THEN <<>>
    ELSE IF Len(PrefixedBy(Head(candidates))) > 0 THEN PrefixedBy(Head(candidates))
    ELSE FirstCandidateEntries(Tail(candidates))

\* The entries of at least four characters that the normalized name starts with.
PrefixesOfName ==
    SelectSeq(catalog, LAMBDA entry :
        /\ Len(LowerOf(entry)) >= 4
        /\ \/ HasPrefix(normalized, LowerOf(entry) \o " ")
           \/ HasPrefix(normalized, LowerOf(entry) \o "-"))

\* The entries that hold every word of the role-stripped name of two words or more.
HoldingAllWords ==
    IF Len(Fields(core)) < 2 THEN <<>>
    ELSE SelectSeq(catalog, LAMBDA entry :
             \A i \in 1..Len(Fields(core)) :
                 \E j \in 1..Len(Fields(LowerOf(entry))) :
                     Fields(LowerOf(entry))[j] = Fields(core)[i])

\* What one pass finds, the forward-prefix pass starting from a given first
\* candidate.
Found(pass, firstCandidate) ==
    CASE pass = "exact" -> FirstNamed(AliasResolved)
      [] pass = "normalized" ->
             IF normalized # AliasResolved THEN FirstNamed(normalized) ELSE <<>>
      [] pass = "stripped" -> IF stripped THEN FirstNamed(core) ELSE <<>>
      [] pass = "forward" -> FirstCandidateEntries(<<firstCandidate, normalized, core>>)
      [] pass = "reverse" -> PrefixesOfName
      [] pass = "subset" -> HoldingAllWords
      [] OTHER -> <<>>

\* The pass ends Match: it found entries, it is the guard on a short name, or
\* it is the last pass.
Ends(pass, found) ==
    \/ Len(found) > 0
    \/ pass = "guard" /\ Len(normalized) < 4
    \/ pass = "subset"

\* One pass runs: Match returns what this pass alone found, or goes on empty-
\* handed to the next pass of the fixed order.
PassOutcome(found) ==
    IF Ends(mpc, found)
    THEN mpc' = "returned" /\ matches' = found /\ returnedBy' = mpc
    ELSE mpc' = After(mpc) /\ matches' = <<>> /\ matches = <<>>

OnePassStep(firstCandidate) ==
    (mpc \in WordsOf(Passes) /\ mpc' # mpc) => PassOutcome(Found(mpc, firstCandidate))

C14_SameEntriesInAnyStorageOrder ==
    MatchReturnedTwice => matches = earlier.matches

\* The lowercase names the exact lookups of Match look up.
ExactLookupNames == {AliasResolved, normalized} \cup (IF stripped THEN {core} ELSE {})

\* C15: for a detected name whose normalized form has fewer than four
\* characters, Match returns nothing or the single entry of an exact lookup
\* (alias, exact, normalized or role-stripped pass), and never returns from the
\* forward-prefix, reverse-prefix or word-subset pass.
C15_ShortNameExactOrNothing ==
    (MatchReturned /\ Len(normalized) < 4) =>
        /\ returnedBy \in {"exact", "normalized", "stripped", "guard"}
        /\ returnedBy = "guard" => matches = <<>>
        /\ returnedBy # "guard" =>
               /\ Len(matches) = 1
               /\ \E lowerName \in ExactLookupNames : matches = FirstNamed(lowerName)

\* C15 witness: a three-character name returns nothing although an entry of
\* the catalog starts with it and a separator.
C15_ShortNameWithPrefixedEntry ==
    /\ MatchReturned /\ Len(normalized) = 3
    /\ Len(PrefixedBy(normalized)) > 0
    /\ matches = <<>>

\* Match("ebs-csi-node") has returned for the catalog that holds only
\* "AWS EBS CSI Driver".
EbsCsiNodeReturned ==
    /\ MatchReturned
    /\ name = "ebs-csi-node"
    /\ catalog = <<[Name |-> "AWS EBS CSI Driver"]>>

LeadByte == "#"

ContinuationByte == "$"

\* utf8.ValidString on strings of ASCII bytes and these two bytes.
ValidString(s) ==
    \A i \in 1..Len(s) :
        /\ CharAt(s, i) = LeadByte => (i < Len(s) /\ CharAt(s, i + 1) = ContinuationByte)
        /\ CharAt(s, i) = ContinuationByte => (i > 1 /\ CharAt(s, i - 1) = LeadByte)

\* The bytes the regexp class \w holds.
WordBytes == CharsOf(UpperCase) \cup CharsOf(LowerCase) \cup CharsOf(Digits) \cup {"_"}

\* The regexp assertion \b at offset i of s.
WordBoundary(s, i) ==
    (i > 0 /\ CharAt(s, i) \in WordBytes) # (i < Len(s) /\ CharAt(s, i + 1) \in WordBytes)

\* \bword\b matches somewhere in s.
MatchesWord(s, word) ==
    \E i \in 0..(Len(s) - Len(word)) :
        /\ SubSeq(s, i + 1, i + Len(word)) = word
        /\ WordBoundary(s, i)
        /\ WordBoundary(s, i + Len(word))

AllDigits(segments) ==
    \A i \in 1..Len(segments) :
        /\ segments[i] # ""
        /\ \A j \in 1..Len(segments[i]) : IsDigit(CharAt(segments[i], j))

\* The whole of token matches v?\d+\.\d+(?:\.\d+)?
IsVersionToken(token) ==
    /\ Len(Split(TrimPrefix(token, "v"), ".")) \in {2, 3}
    /\ AllDigits(Split(TrimPrefix(token, "v"), "."))

\* evidenceK8sPattern, evidenceVersionPattern, evidenceSupportPattern,
\* evidenceLinePattern and evidenceNegationPattern, each applied to the line in
\* lower case because of its (?i).
evidenceK8sPattern(l) == MatchesWord(l, "kubernetes") \/ MatchesWord(l, "k8s")

evidenceVersionPattern(l) ==
    \E i \in 0..Len(l) : \E j \in (i + 3)..Len(l) :
        /\ WordBoundary(l, i)
        /\ WordBoundary(l, j)
        /\ IsVersionToken(SubSeq(l, i + 1, j))

ContainsAny(l, pieces) == \E piece \in pieces : Contains(l, piece)

evidenceSupportPattern(l) ==
    ContainsAny(l, {"compat", "support", "matrix", "tested", "require", "recommended"})

evidenceLinePattern(l) ==
    ContainsAny(l, {"kubernetes", "k8s", "compat", "support", "version", "matrix",
                    "tested", "eol", "lts", "deprecated", "upgrade", "required"})

NegatedNouns == {"compatibility", "support", "version", "matrix"}

evidenceNegationPattern(l) ==
    ContainsAny(l, {"non-matrix", "non matrix", "does not contain", "does not include",
                    "lack"}
                   \cup {"without a " \o noun : noun \in NegatedNouns}
                   \cup {"without " \o noun : noun \in NegatedNouns}
                   \cup {"no " \o noun : noun \in NegatedNouns})

\* Lines 988-1006: the score of one normalized line.
LineScore(hasK8s, hasVersion, hasSupportSignal, hasLine, hasNegation) ==
    (IF hasK8s /\ hasVersion THEN 5 ELSE 0)
        + (IF hasSupportSignal THEN 3 ELSE 0)
        + (IF hasVersion THEN 2 ELSE 0)
        + (IF hasLine THEN 1 ELSE 0)
        - (IF hasNegation THEN 4 ELSE 0)

ScoreOfLower(l) ==
    LineScore(evidenceK8sPattern(l), evidenceVersionPattern(l), evidenceSupportPattern(l),
              evidenceLinePattern(l), evidenceNegationPattern(l))

ScoreOf(line) == ScoreOfLower(ToLower(line))

\* Lines 941-954: the non-empty lines, each with its spaces collapsed.
CleanLines(rawLines) ==
    SelectSeq([i \in 1..Len(rawLines) |-> Join(Fields(TrimSpace(rawLines[i])), " ")],
              LAMBDA cleanLine : cleanLine # "")

normalizedLinesOf(text) ==
    IF TrimSpace(text) = "" THEN <<>> ELSE CleanLines(Split(TrimSpace(text), "\n"))

\* Lines 960-963.
lineBudgetOf(maxLinesArg, lineCount) ==
    IF maxLinesArg <= 0 \/ maxLinesArg > lineCount THEN lineCount ELSE maxLinesArg

\* Lines 966-978: addLine on the set of selected indexes, which start at 0.
addLine(chosen, lineIndex, lineCount, lineBudget) ==
    IF lineIndex < 0 \/ lineIndex >= lineCount THEN chosen
    ELSE IF Cardinality(chosen) >= lineBudget THEN chosen
    ELSE IF lineIndex \in chosen THEN chosen
    ELSE chosen \cup {lineIndex}

\* addLine called on each index of a sequence in turn.
RECURSIVE AddLines(_, _, _, _)
AddLines(chosen, indexes, lineCount, lineBudget) ==
    IF Len(indexes) = 0 \/ Cardinality(chosen) >= lineBudget THEN chosen
    ELSE AddLines(addLine(chosen, Head(indexes), lineCount, lineBudget), Tail(indexes),
                  lineCount, lineBudget)

leadingContextLines == 12

contextBefore == 2

contextAfter == 2

\* Lines 982-984 and 1043-1045: the indexes 0, 1, ... below a limit.
IndexesBelow(limit) == [i \in 1..limit |-> i - 1]

\* A faulty variant of AnchorBefore: the anchors stay in document order.
AnchorBeforeByIndex(left, right) == left.index < right.index

\* Lines 1014-1021: does the left anchor sort before the right one.
AnchorBefore(left, right) ==
    IF left.score = right.score THEN left.index < right.index ELSE left.score > right.score

\* sort.SliceStable on the anchors.
RECURSIVE SortAnchors(_)
SortAnchors(anchors) ==
    IF anchors = {} THEN <<>>
    ELSE LET first == CHOOSE a \in anchors : \A b \in anchors \ {a} : AnchorBefore(a, b)
         IN  <<first>> \o SortAnchors(anchors \ {first})

\* Lines 986-1013: the lines with a positive score.
AnchorsOf(lines) ==
    {anchor \in {[index |-> i - 1, score |-> ScoreOf(lines[i])] : i \in 1..Len(lines)} :
         anchor.score > 0}

\* Lines 1031-1039: an anchor, then its neighbours from the nearest outwards.
RECURSIVE AroundAnchor(_, _)
AroundAnchor(index, offset) ==
    IF ~(offset <= contextBefore \/ offset <= contextAfter) THEN <<>>
    ELSE (IF offset <= contextAfter THEN <<index + offset>> ELSE <<>>)
             \o (IF offset <= contextBefore THEN <<index - offset>> ELSE <<>>)
             \o AroundAnchor(index, offset + 1)

RECURSIVE AnchorIndexes(_)
AnchorIndexes(sorted) ==
    IF Len(sorted) = 0 THEN <<>>
    ELSE <<Head(sorted).index>> \o AroundAnchor(Head(sorted).index, 1)
             \o AnchorIndexes(Tail(sorted))

\* A faulty variant of FillIndexes: no slot is filled after the anchors.
FillNothing(lineCount) == <<>>

\* Lines 1043-1045: the indexes the fill loop offers to addLine.
FillIndexes(lineCount) == IndexesBelow(lineCount)

\* Lines 982-1045: header lines, then anchors with their neighbours, then the
\* remaining lines from the start; addLine ignores every call once the budget
\* is used up, which is when the loops of the code break (lines 1027, 1043).
SelectIndexes(lines, lineBudget) ==
    AddLines({},
             IndexesBelow(IF Len(lines) < leadingContextLines THEN Len(lines)
                          ELSE leadingContextLines)
                 \o AnchorIndexes(SortAnchors(AnchorsOf(lines)))
                 \o FillIndexes(Len(lines)),
             Len(lines), lineBudget)

\* Lines 1047-1058: the selected lines in index order.
RECURSIVE SelectedLines(_, _, _)
SelectedLines(lines, chosen, lineIndex) ==
    IF lineIndex >= Len(lines) THEN <<>>
    ELSE (IF lineIndex \in chosen THEN <<lines[lineIndex + 1]>> ELSE <<>>)
             \o SelectedLines(lines, chosen, lineIndex + 1)

\* A faulty variant of TruncateAt: the cut is made at maxBytes wherever it falls.
TruncateAtAnyByte(text, truncateIndex) == SubSeq(text, 1, truncateIndex)

\* Lines 1085-1092.
RECURSIVE TruncateAt(_, _)
TruncateAt(text, truncateIndex) ==
    IF truncateIndex > 0 /\ ~ValidString(SubSeq(text, 1, truncateIndex))
    THEN TruncateAt(text, truncateIndex - 1)
    ELSE IF truncateIndex <= 0 THEN ""
    ELSE SubSeq(text, 1, truncateIndex)

truncateToValidUTF8Prefix(text, maxBytes) ==
    IF maxBytes <= 0 \/ text = "" THEN ""
    ELSE IF Len(text) <= maxBytes THEN text
    ELSE TruncateAt(text, maxBytes)

\* Lines 1062-1072: one iteration of the output loop after its separator has
\* been written; the second component tells whether the loop breaks.
WriteLine(builder, line, maxCharsArg) ==
    IF maxCharsArg > 0 /\ Len(builder) + Len(line) > maxCharsArg
    THEN <<IF maxCharsArg - Len(builder) > 0
           THEN builder \o truncateToValidUTF8Prefix(line, maxCharsArg - Len(builder))
           ELSE builder,
           TRUE>>
    ELSE <<builder \o line, FALSE>>

\* Lines 1060-1073.
RECURSIVE BuildOutput(_, _, _)
BuildOutput(builder, lines, maxCharsArg) ==
    IF Len(lines) = 0 THEN builder
    ELSE LET written == WriteLine(IF Len(builder) > 0 THEN builder \o "\n" ELSE builder,
                                  Head(lines), maxCharsArg)
         IN  IF written[2] THEN written[1]
             ELSE BuildOutput(written[1], Tail(lines), maxCharsArg)

\* pruneEvidenceText on its normalized lines: the selected indexes and the
\* returned string.
PruneLines(lines, chosen, maxCharsArg) ==
    [selected |-> chosen,
     output |-> TrimSpace(BuildOutput("",
                    IF Len(SelectedLines(lines, chosen, 0)) = 0 THEN lines
                    ELSE SelectedLines(lines, chosen, 0),
                    maxCharsArg))]

pruneEvidenceText(text, maxCharsArg, maxLinesArg) ==
    IF Len(normalizedLinesOf(text)) = 0 THEN [selected |-> {}, output |-> ""]
    ELSE PruneLines(normalizedLinesOf(text),
                    SelectIndexes(normalizedLinesOf(text),
                                  lineBudgetOf(maxLinesArg, Len(normalizedLinesOf(text)))),
                    maxCharsArg)

(***************************************************************************)
(* Texts handed to pruneEvidenceText                                       *)
(***************************************************************************)

MaxTailLines == 3

\* Raw lines: a platform token with a version token, the same with a support
\* keyword and stray spaces, the same with a negation, a version token next to
\* a two-byte character, and a continuation byte on its own (invalid UTF-8).
EvidenceLinePool ==
    {"k8s 1.30", " k8s  1.31 tested", "lacks k8s 1.2", "v1.2 #$", "$"}

\* A text is a run of plain lines, none or enough of them to fill the header
\* slice, followed by lines of the pool.
PlainLines(count) == [i \in 1..count |-> "h"]

EvidenceTexts ==
    {Join(PlainLines(plain) \o tail, "\n") :
         plain \in {0, leadingContextLines},
         tail \in UNION {[1..n -> EvidenceLinePool] : n \in 1..MaxTailLines}}

MaxCharsPool == {1, 6, 7000}

MaxLinesPool == {0, 13, 14}

(***************************************************************************)
(* pruneEvidenceText as a state machine                                    *)
(***************************************************************************)

\* What a step of pruneEvidenceText leaves alone.
OutsidePrune == <<resolverVars, matcherVars, pipelineVars, dedupVars, helperVars>>

PruneInit ==
    /\ input \in EvidenceTexts
    /\ maxChars \in MaxCharsPool
    /\ maxLines \in MaxLinesPool
    /\ ppc = "start"
    /\ selected = {}
    /\ pruned = ""
    /\ ResolverIdle
    /\ MatcherIdle
    /\ PipelineIdle
    /\ DedupIdle
    /\ HelpersIdle

\* pruneEvidenceText from its first line to its return.
Prune ==
    /\ ppc = "start"
    /\ \E out \in {pruneEvidenceText(input, maxChars, maxLines)} :
           /\ selected' = out.selected
           /\ pruned' = out.output
    /\ ppc' = "done"
    /\ UNCHANGED <<input, maxChars, maxLines>>
    /\ UNCHANGED OutsidePrune

PruneNext == Prune

PruneSpec == PruneInit /\ [][PruneNext]_vars

(***************************************************************************)
(* Properties of pruneEvidenceText                                         *)
(***************************************************************************)

Pruned == ppc = "done"

\* C17: for every input, every line budget and every maxChars > 0 the returned
\* string has at most maxChars bytes, and it is valid UTF-8 whenever the input
\* is.
C17_BoundedAndValidUTF8 ==
    (Pruned /\ maxChars > 0) =>
        /\ Len(pruned) <= maxChars
        /\ ValidString(input) => ValidString(pruned)

\* C17 witness: cutting the first line at maxChars bytes would end inside a
\* two-byte character, and the returned string ends before that character.
C17_CutBeforeTwoByteCharacter ==
    /\ Pruned /\ maxChars > 0 /\ ValidString(input)
    /\ Len(normalizedLinesOf(input)) > 0
    /\ Len(normalizedLinesOf(input)[1]) > maxChars
    /\ CharAt(normalizedLinesOf(input)[1], maxChars) = LeadByte
    /\ Len(pruned) > 0
    /\ pruned = TrimSpace(SubSeq(normalizedLinesOf(input)[1], 1, maxChars - 1))

\* The number of lines the header slice takes.
HeaderLines(lines) ==
    IF Len(lines) < leadingContextLines THEN Len(lines) ELSE leadingContextLines

\* The indexes, from 0, of the normalized lines that score 5 or more.
StrongLines(lines) == {i \in 0..(Len(lines) - 1) : ScoreOf(lines[i + 1]) >= 5}

\* The line budget has room for the header lines and one anchor more.
RoomForAnAnchor(lines) ==
    lineBudgetOf(maxLines, Len(lines)) >= HeaderLines(lines) + 1

\* C18: when the line budget has room for the header lines plus at least one
\* anchor, every normalized line that scores 5 or more is among the selected
\* lines.
C18_StrongLinesSelected ==
    (Pruned /\ RoomForAnAnchor(normalizedLinesOf(input))) =>
        StrongLines(normalizedLinesOf(input)) \subseteq selected

\* The normalized lines of the input, and the score of the line at an index.
normalizedLines == normalizedLinesOf(input)

\* The score of every normalized line; line i of the code is entry i + 1.
ScoresOf(lines) == [i \in 1..Len(lines) |-> ScoreOf(lines[i])]

Scores == ScoresOf(normalizedLines)

PositiveLines(scores) == {i \in 0..(Len(scores) - 1) : scores[i + 1] > 0}

\* Anchor a ranks before anchor b: by score descending, then by position.
RanksBefore(scores, a, b) ==
    scores[a + 1] > scores[b + 1] \/ (scores[a + 1] = scores[b + 1] /\ a < b)

\* Line s is anchor a or one of its neighbours within two lines.
AroundOf(s, a) == s - a <= contextAfter /\ a - s <= contextBefore

\* C28: a positive-scoring line is left out only when the budget is used up,
\* and then every selected line is a header line, or an anchor that ranks
\* before it, or a neighbour of such an anchor.
C28_PositiveLineLeftOutOnlyForPriorChoices ==
    Pruned =>
        \A scores \in {Scores} :
            \A left \in PositiveLines(scores) \ selected :
                /\ Cardinality(selected) = lineBudgetOf(maxLines, Len(scores))
                /\ \A s \in selected :
                       \/ s < leadingContextLines
                       \/ \E a \in PositiveLines(scores) :
                              RanksBefore(scores, a, left) /\ AroundOf(s, a)

\* A positive-scoring line is left out, and the last slot went to a neighbour
\* of a better anchor.
C28_LeftOutAfterBetterAnchor ==
    /\ Pruned
    /\ \E scores \in {Scores} :
           \E left \in PositiveLines(scores) \ selected : \E s \in selected :
               /\ s >= leadingContextLines
               /\ \E a \in PositiveLines(scores) :
                      a # s /\ RanksBefore(scores, a, left) /\ AroundOf(s, a)

\* min(maxLines, N), and N when maxLines <= 0.
ExpectedCount(lineCount) ==
    IF maxLines <= 0 \/ maxLines > lineCount THEN lineCount ELSE maxLines

\* The lines at the selected indexes, in document order.
InDocumentOrder(lines) ==
    [k \in 1..Cardinality(selected) |->
        lines[1 + CHOOSE i \in selected : Cardinality({j \in selected : j < i}) = k - 1]]

\* C29: the selection holds min(maxLines, N) of the N normalized lines, all of
\* them when maxLines <= 0; it is the first lines when no line scores positive;
\* and an output that is not cut short holds them in document order.
C29_BudgetFilledInDocumentOrder ==
    Pruned =>
        \A lines \in {normalizedLines} :
            /\ selected \subseteq 0..(Len(lines) - 1)
            /\ Cardinality(selected) = ExpectedCount(Len(lines))
            /\ PositiveLines(ScoresOf(lines)) = {}
                   => selected = 0..(ExpectedCount(Len(lines)) - 1)
            /\ \A expected \in {Join(InDocumentOrder(lines), "\n")} :
                   Len(expected) <= maxChars => pruned = expected

\* No line scores positive and the budget is smaller than the text.
C29_FirstLinesWithoutAnchors ==
    /\ Pruned
    /\ \E lines \in {normalizedLines} :
           /\ PositiveLines(ScoresOf(lines)) = {}
           /\ maxLines > 0
           /\ maxLines < Len(lines)
           /\ selected = 0..(maxLines - 1)
           /\ pruned = Join(InDocumentOrder(lines), "\n")

(***************************************************************************)
(* Run from phase 2b on, and analyzeCompatibility                          *)
(***************************************************************************)

\* output.DataSourceRuntime: the mark analyzeCompatibility puts on its results.
DataSourceRuntime == "runtime"

HasStoredCompatibility(a) ==
    \/ Cardinality(DOMAIN a.KubernetesCompatibility) > 0
    \/ a.KubernetesMinVersion # ""
    \/ a.KubernetesMaxVersion # ""

MaxWorkloads == 2

CatalogEntry(m, min, url) ==
    [KubernetesCompatibility |-> m, KubernetesMinVersion |-> min,
     KubernetesMaxVersion |-> "", CompatibilityMatrixURL |-> url]

\* Matched workloads under their catalog names: two whose entry has a matrix,
\* one installed version in it and one not; one whose entry has a minimum
\* version only; two whose entries have no stored data, with and without a URL.
WorkloadPool ==
    {[Name |-> "a", Version |-> "v1.9.5",
      DBMatch |-> CatalogEntry("1.9" :> <<"1.30">>, "", SourceURL)],
     [Name |-> "b", Version |-> "2.1.0",
      DBMatch |-> CatalogEntry("1.9" :> <<"1.30">>, "", SourceURL)],
     [Name |-> "c", Version |-> "1.0", DBMatch |-> CatalogEntry(NoMatrix, "1.31", SourceURL)],
     [Name |-> "d", Version |-> "1.0", DBMatch |-> CatalogEntry(NoMatrix, "", SourceURL)],
     [Name |-> "e", Version |-> "", DBMatch |-> CatalogEntry(NoMatrix, "", "")]}

\* bestByName in the order of the sorted names: at least one workload.
WorkloadLists ==
    {q \in UNION {[1..n -> WorkloadPool] : n \in 1..MaxWorkloads} :
         \A i, j \in 1..Len(q) : i < j => StringLess(q[i].Name, q[j].Name)}

\* What one call of analyzeSingleAddon comes back with: the model's answer, or
\* an error of the call or of parsing the answer.
Outcomes ==
    {[ok |-> TRUE, Name |-> answered, InstalledVersion |-> installed,
      Compatible |-> verdict, Note |-> note, err |-> ""] :
         answered \in {"", "renamed"}, installed \in {"", "9.9"},
         verdict \in {StatusTrue, StatusFalse, StatusUnknown},
         note \in {"", "Supported per the matrix. Source: " \o SourceURL}}
    \cup
    {[ok |-> FALSE, Name |-> "", InstalledVersion |-> "", Compatible |-> "",
      Note |-> "", err |-> reason] :
         reason \in {"deadline exceeded", "parsing single-addon JSON output: EOF"}}

MissingKeyError == "gemini API key is required"

FormatError == "formatting output failed"

\* The workload the routing loop of lines 119-130 looks at next.
Routed == Len(storedResults) + Len(runtimeAddons)

\* A faulty variant of Analysed: the stored results count as analysed addons.
AnalysedCountingStored == Len(results)

\* The runtime addon the loop of analyzeCompatibility looks at next.
Analysed == Len(results) - Len(storedResults)

\* What a step of Run outside resolveFromStoredData leaves alone.
OutsidePipeline == <<matcherVars, pruneVars, dedupVars, helperVars>>

PipelineInit ==
    /\ workloads \in WorkloadLists
    /\ apiKey \in {"", "key"}
    /\ rpc = "route"
    /\ storedResults = <<>>
    /\ runtimeAddons = <<>>
    /\ results = <<>>
    /\ interpreted = <<>>
    /\ emitted = <<>>
    /\ returned = ""
    /\ addon = CatalogEntry(<<>>, "", "")
    /\ version = ""
    /\ k8sVersion \in {"1.30", "v1.31.4"}
    /\ pc = "idle"
    /\ result = NoResult
    /\ matchedKey = ""
    /\ via = ""
    /\ previous = NoPrevious
    /\ MatcherIdle
    /\ PruneIdle
    /\ DedupIdle
    /\ HelpersIdle

\* Lines 119-129 for one workload: resolveFromStoredData is called for an
\* entry with stored data; any other workload joins runtimeAddons, with the
\* CompatibilityURL that lines 147-149 give it.
Route ==
    /\ rpc = "route"
    /\ Routed < Len(workloads)
    /\ \E info \in {workloads[Routed + 1]} :
           IF HasStoredCompatibility(info.DBMatch)
           THEN /\ addon' = info.DBMatch
                /\ version' = info.Version
                /\ pc' = "start"
                /\ rpc' = "resolving"
                /\ UNCHANGED runtimeAddons
           ELSE /\ runtimeAddons' =
                       Append(runtimeAddons,
                              [Name |-> info.Name, Version |-> info.Version,
                               CompatibilityURL |-> info.DBMatch.CompatibilityMatrixURL])
                /\ UNCHANGED <<addon, version, pc, rpc>>
    /\ result' = NoResult
    /\ matchedKey' = ""
    /\ via' = ""
    /\ UNCHANGED <<k8sVersion, previous>>
    /\ UNCHANGED <<workloads, apiKey, storedResults, results, interpreted, emitted, returned>>
    /\ UNCHANGED OutsidePipeline

\* Lines 124-125: resolveFromStoredData has returned and its result is kept.
CollectStored ==
    /\ rpc = "resolving"
    /\ pc = "done"
    /\ storedResults' =
           Append(storedResults,
                  [Name |-> workloads[Routed + 1].Name,
                   InstalledVersion |-> result.InstalledVersion,
                   Compatible |-> result.Compatible, Note |-> result.Note,
                   DataSource |-> result.DataSource])
    /\ pc' = "idle"
    /\ rpc' = "route"
    /\ UNCHANGED <<addon, version, k8sVersion, result, matchedKey, via, previous>>
    /\ UNCHANGED <<workloads, apiKey, runtimeAddons, results, interpreted, emitted, returned>>
    /\ UNCHANGED OutsidePipeline

\* Lines 177-191 and 754-755: without an API key Run returns an error when
\* there are runtime addons; otherwise analyzeCompatibility starts from the
\* stored results.
StartAnalysis ==
    /\ rpc = "route"
    /\ Routed = Len(workloads)
    /\ IF Len(runtimeAddons) > 0 /\ TrimSpace(apiKey) = ""
       THEN /\ returned' = MissingKeyError
            /\ rpc' = "returned"
            /\ UNCHANGED results
       ELSE /\ results' = storedResults
            /\ rpc' = "analyze"
            /\ UNCHANGED returned
    /\ UNCHANGED <<workloads, apiKey, storedResults, runtimeAddons, interpreted, emitted>>
    /\ UNCHANGED resolverVars
    /\ UNCHANGED OutsidePipeline

\* A faulty variant of FallbackResult: the note does not say why.
FallbackResultWithoutReason(addonInfo, err) ==
    [Name |-> addonInfo.Name, InstalledVersion |-> addonInfo.Version,
     Compatible |-> StatusUnknown, Note |-> "Analysis error"]

\* Lines 768-777: the result that stands in for a failed call.
FallbackResult(addonInfo, err) ==
    [Name |-> addonInfo.Name, InstalledVersion |-> addonInfo.Version,
     Compatible |-> StatusUnknown,
     Note |-> "Analysis error: " \o err
              \o (IF addonInfo.CompatibilityURL # ""
                  THEN " Source: " \o addonInfo.CompatibilityURL ELSE "")]

\* Lines 906-919: the result of a successful call.
AnsweredResult(addonInfo, answer) ==
    [Name |-> IF answer.Name = "" THEN addonInfo.Name ELSE answer.Name,
     InstalledVersion |-> IF answer.InstalledVersion = "" THEN addonInfo.Version
                          ELSE answer.InstalledVersion,
     Compatible |-> answer.Compatible, Note |-> answer.Note]

\* Lines 756-789 for one runtime addon.
AnalyzeOne ==
    /\ rpc = "analyze"
    /\ Analysed < Len(runtimeAddons)
    /\ \E addonInfo \in {runtimeAddons[Analysed + 1]}, outcome \in Outcomes :
           /\ interpreted' = Append(interpreted, [Name |-> addonInfo.Name, outcome |-> outcome])
           /\ results' =
                  Append(results,
                         [DataSource |-> DataSourceRuntime]
                             @@ (IF outcome.ok THEN AnsweredResult(addonInfo, outcome)
                                 ELSE FallbackResult(addonInfo, outcome.err)))
    /\ UNCHANGED <<workloads, apiKey, rpc, storedResults, runtimeAddons, emitted, returned>>
    /\ UNCHANGED resolverVars
    /\ UNCHANGED OutsidePipeline

\* Lines 791-813: the results are handed to output.FormatOutput, which may
\* fail; its error is the only one analyzeCompatibility returns.
FormatResults ==
    /\ rpc = "analyze"
    /\ Analysed = Len(runtimeAddons)
    /\ emitted' = results
    /\ returned' \in {"", FormatError}
    /\ rpc' = "returned"
    /\ UNCHANGED <<workloads, apiKey, storedResults, runtimeAddons, results, interpreted>>
    /\ UNCHANGED resolverVars
    /\ UNCHANGED OutsidePipeline

PipelineNext ==
    \/ Route
    \/ DirectMatch
    \/ ThresholdMatch
    \/ LatestCompatible
    \/ MinMaxOnly
    \/ CollectStored
    \/ StartAnalysis
    \/ AnalyzeOne
    \/ FormatResults

PipelineSpec == PipelineInit /\ [][PipelineNext]_vars

(***************************************************************************)
(* Properties of the routing and of analyzeCompatibility                   *)
(***************************************************************************)

\* analyzeCompatibility has run to its end.
AnalysisReturned == rpc = "returned" /\ returned # MissingKeyError

\* resolveFromStoredData was called for the workload and said true or false.
DeterministicVerdict(w) ==
    \E i \in 1..Len(storedResults) :
        /\ storedResults[i].Name = w.Name
        /\ storedResults[i].Compatible \in {StatusTrue, StatusFalse}

SentToInterpretation(w) ==
    \E i \in 1..Len(interpreted) : interpreted[i].Name = w.Name

\* C19: once the analysis has returned, a matched workload was sent to
\* interpretation if and only if the stored-data resolver gave no true/false
\* verdict for it.
C19_InterpretedIffNoVerdict ==
    AnalysisReturned =>
        \A i \in 1..Len(workloads) :
            SentToInterpretation(workloads[i]) <=> ~DeterministicVerdict(workloads[i])

\* The result emitted for the i-th runtime addon.
EmittedFor(i) == emitted[Len(storedResults) + i]

\* C20: once analyzeCompatibility has returned, every runtime addon was
\* analysed, in input order, and has one result after the stored ones; the
\* result of a failed call is unknown and its note carries the reason; and an
\* error is returned only by the formatting of the results.
C20_OneResultPerRuntimeAddon ==
    AnalysisReturned =>
        /\ Len(interpreted) = Len(runtimeAddons)
        /\ Len(emitted) = Len(storedResults) + Len(runtimeAddons)
        /\ SubSeq(emitted, 1, Len(storedResults)) = storedResults
        /\ \A i \in 1..Len(runtimeAddons) :
               /\ interpreted[i].Name = runtimeAddons[i].Name
               /\ EmittedFor(i).DataSource = DataSourceRuntime
               /\ IF interpreted[i].outcome.ok
                  THEN /\ EmittedFor(i).Compatible = interpreted[i].outcome.Compatible
                       /\ EmittedFor(i).Name
                              \in {runtimeAddons[i].Name, interpreted[i].outcome.Name}
                  ELSE /\ EmittedFor(i).Name = runtimeAddons[i].Name
                       /\ EmittedFor(i).InstalledVersion = runtimeAddons[i].Version
                       /\ EmittedFor(i).Compatible = StatusUnknown
                       /\ HasPrefix(EmittedFor(i).Note,
                                    "Analysis error: " \o interpreted[i].outcome.err)
        /\ returned \in {"", FormatError}

\* The first call failed, the second succeeded, and no error was returned.
C20_FailureThenSuccess ==
    /\ AnalysisReturned
    /\ returned = ""
    /\ Len(interpreted) = 2
    /\ ~interpreted[1].outcome.ok
    /\ interpreted[2].outcome.ok
    /\ interpreted[2].outcome.Compatible = StatusTrue

\* The names for which resolveFromStoredData was called, and the names that
\* joined runtimeAddons.
StoredNames == {storedResults[i].Name : i \in 1..Len(storedResults)}

RuntimeNames == {runtimeAddons[i].Name : i \in 1..Len(runtimeAddons)}

RoutingDone == rpc \in {"analyze", "returned"}

SourceURLOf(i) ==
    IF i <= Len(storedResults)
    THEN (CHOOSE w \in WorkloadPool : w.Name = storedResults[i].Name).DBMatch.CompatibilityMatrixURL
    ELSE runtimeAddons[i - Len(storedResults)].CompatibilityURL

\* C24: every emitted result for an entry with a source URL has a note that
\* contains the URL.
C24_NoteCitesSourceURL ==
    AnalysisReturned =>
        \A i \in 1..Len(emitted) :
            SourceURLOf(i) # "" => Contains(emitted[i].Note, SourceURLOf(i))

(***************************************************************************)
(* Run, phases 1 and 2: sorting, matching and deduplication                *)
(***************************************************************************)

\* The key of the comparison function handed to sort.SliceStable.
SortKey(a) == ToLower(a.Name) \o "|" \o ToLower(a.Namespace) \o "|" \o ToLower(a.Version)

\* A stable insertion: a goes before the first element whose key is greater.
RECURSIVE InsertStable(_, _)
InsertStable(sorted, a) ==
    IF Len(sorted) = 0 THEN <<a>>
    ELSE IF StringLess(SortKey(a), SortKey(Head(sorted))) THEN <<a>> \o sorted
    ELSE <<Head(sorted)>> \o InsertStable(Tail(sorted), a)

\* sort.SliceStable by SortKey: elements with equal keys keep their order.
RECURSIVE SortSliceStable(_)
SortSliceStable(seq) ==
    IF Len(seq) = 0 THEN <<>>
    ELSE InsertStable(SortSliceStable(SubSeq(seq, 1, Len(seq) - 1)), seq[Len(seq)])

MaxDetected == 2

\* The catalog the matching runs against.
DedupCatalog == <<[Name |-> "cert-manager"], [Name |-> "Redis"]>>

\* Detected workloads: three of one addon (two of them alike up to letter
\* case, one without a version), one of another addon under a role suffix,
\* and one the catalog does not know.
DetectedPool ==
    {[Name |-> "cert-manager", Namespace |-> "cert-manager", Version |-> "v1.14.0"],
     [Name |-> "Cert-Manager", Namespace |-> "cert-manager", Version |-> "V1.14.0"],
     [Name |-> "cert-manager", Namespace |-> "kube-system", Version |-> ""],
     [Name |-> "redis-master", Namespace |-> "db", Version |-> "7.2"],
     [Name |-> "nginx", Namespace |-> "web", Version |-> "1.25"]}

\* Discovery results: distinct workloads in any order.
DetectedLists ==
    {q \in UNION {[1..n -> DetectedPool] : n \in 1..MaxDetected} :
         \A i, j \in 1..Len(q) : q[i] = q[j] => i = j}

OutsideDedup == <<resolverVars, pruneVars, pipelineVars, helperVars>>

DedupInit ==
    /\ detected \in DetectedLists
    /\ detectedIndex = 1
    /\ matchedAs = <<>>
    /\ dpc = "sort"
    /\ bestByName = <<>>
    /\ before = [invoked |-> FALSE]
    /\ catalog = DedupCatalog
    /\ matcher = NewMatcher(DedupCatalog)
    /\ name = ""
    /\ lower = ""
    /\ mpc = "idle"
    /\ matches = <<>>
    /\ returnedBy = ""
    /\ earlier = NotReturned
    /\ ResolverIdle
    /\ PruneIdle
    /\ PipelineIdle
    /\ HelpersIdle

\* Lines 72-78.
SortDetected ==
    /\ dpc = "sort"
    /\ detected' = SortSliceStable(detected)
    /\ dpc' = "match"
    /\ UNCHANGED <<detectedIndex, matchedAs, bestByName, before>>
    /\ UNCHANGED matcherVars
    /\ UNCHANGED OutsideDedup

\* Line 88: Match is called for the next workload.
CallMatch ==
    /\ dpc = "match"
    /\ mpc = "idle"
    /\ detectedIndex <= Len(detected)
    /\ name' = detected[detectedIndex].Name
    /\ mpc' = "alias"
    /\ lower' = ""
    /\ matches' = <<>>
    /\ returnedBy' = ""
    /\ UNCHANGED <<catalog, matcher, earlier>>
    /\ UNCHANGED dedupVars
    /\ UNCHANGED OutsideDedup

\* A faulty variant of KeepsExisting: the later workload always replaces.
KeepsExistingNever(exists, existingVersion, aVersion) == FALSE

\* Line 95: the condition under which the loop keeps the existing entry.
KeepsExisting(exists, existingVersion, aVersion) ==
    exists /\ existingVersion # "" /\ aVersion = ""

\* bestByName after lines 93-105 for workload a matched to dbName.
Deduplicated(best, dbName, a, dbMatch) ==
    IF KeepsExisting(dbName \in DOMAIN best,
                     IF dbName \in DOMAIN best THEN best[dbName].Version ELSE "",
                     a.Version)
    THEN best
    ELSE [n \in DOMAIN best \cup {dbName} |->
             IF n = dbName
             THEN [Name |-> a.Name, Namespace |-> a.Namespace, Version |-> a.Version,
                   DBMatch |-> dbMatch]
             ELSE best[n]]

\* Lines 89-105: the rest of the loop body, once Match has returned.
KeepBest ==
    /\ dpc = "match"
    /\ mpc = "returned"
    /\ IF Len(matches) = 0
       THEN /\ matchedAs' = Append(matchedAs, "")
            /\ UNCHANGED bestByName
       ELSE /\ matchedAs' = Append(matchedAs, ToLower(matches[1].Name))
            /\ bestByName' = Deduplicated(bestByName, ToLower(matches[1].Name),
                                          detected[detectedIndex], matches[1])
    /\ detectedIndex' = detectedIndex + 1
    /\ mpc' = "idle"
    /\ UNCHANGED <<detected, dpc, before>>
    /\ UNCHANGED <<catalog, matcher, name, lower, matches, returnedBy, earlier>>
    /\ UNCHANGED OutsideDedup

\* The matching loop ends.
EndMatching ==
    /\ dpc = "match"
    /\ mpc = "idle"
    /\ detectedIndex > Len(detected)
    /\ dpc' = "matched"
    /\ UNCHANGED <<detected, detectedIndex, matchedAs, bestByName, before>>
    /\ UNCHANGED matcherVars
    /\ UNCHANGED OutsideDedup

\* Run is called again on a discovery result that holds the same workloads in
\* another order.
RunReordered ==
    /\ dpc = "matched"
    /\ ~before.invoked
    /\ \E reordered \in Reorderings(detected) : detected' = reordered
    /\ before' = [invoked |-> TRUE, bestByName |-> bestByName]
    /\ detectedIndex' = 1
    /\ matchedAs' = <<>>
    /\ dpc' = "sort"
    /\ bestByName' = <<>>
    /\ UNCHANGED matcherVars
    /\ UNCHANGED OutsideDedup

DedupNext ==
    \/ SortDetected
    \/ CallMatch
    \/ PassAlias
    \/ PassExact
    \/ PassNormalized
    \/ PassRoleStripped
    \/ ShortNameGuard
    \/ PassForwardPrefix
    \/ PassReversePrefix
    \/ PassWordSubset
    \/ KeepBest
    \/ EndMatching
    \/ RunReordered

DedupSpec == DedupInit /\ [][DedupNext]_vars

(***************************************************************************)
(* Properties of the deduplication                                         *)
(***************************************************************************)

Matched == dpc = "matched"

\* C22: two runs on the same workloads in different orders keep the same
\* workload for every canonical addon, and so the same sorted names, which is
\* the order of the verdicts.
C22_SameWorkloadKeptInAnyOrder ==
    (Matched /\ before.invoked) => bestByName = before.bestByName

\* The workloads visited so far that matched the canonical name n.
MatchedTo(n) == {i \in 1..Len(matchedAs) : matchedAs[i] = n}

PartsMatch(vParts, cParts) ==
    IF Len(vParts) < 2 \/ Len(cParts) < 1 THEN FALSE
    ELSE IF Len(cParts) = 1 THEN vParts[1] = cParts[1]
    ELSE vParts[1] = cParts[1] /\ vParts[2] = cParts[2]

\* A faulty variant of CycleMatches: the two strings are not compared whole.
CycleMatchesByPartsOnly(v, cycle) ==
    PartsMatch(SplitN(v, ".", 3), SplitN(cycle, ".", 3))

CycleMatches(v, cycle) ==
    IF v = cycle THEN TRUE
    ELSE PartsMatch(SplitN(v, ".", 3), SplitN(cycle, ".", 3))

versionMatchesCycle(installed, cycle) == CycleMatches(TrimPrefix(installed, "v"), cycle)

\* time.Parse("2006-01-02", v) succeeds.
IsDate(v) ==
    /\ Len(v) = 10
    /\ \A i \in {1, 2, 3, 4, 6, 7, 9, 10} : IsDigit(CharAt(v, i))
    /\ CharAt(v, 5) = "-"
    /\ CharAt(v, 8) = "-"

\* (*bool, string) as a record; supported is "nil", "true" or "false".
NoEOLStatus == [supported |-> "nil", until |-> ""]

\* An EOL field holding a bool, and one holding a string.
BoolField(b) == [type |-> "bool", bool |-> b, string |-> ""]

StringField(v) == [type |-> "string", bool |-> FALSE, string |-> v]

\* parseEOLField at the date `today`.
parseEOLField(eol, today) ==
    IF eol.type = "bool"
    THEN [supported |-> IF eol.bool THEN "false" ELSE "true", until |-> ""]
    ELSE IF IsDate(eol.string)
    THEN [supported |-> IF StringLess(today, eol.string) THEN "true" ELSE "false",
          until |-> eol.string]
    ELSE NoEOLStatus

\* The loop of ResolveEOLStatus from cycle i on.
RECURSIVE EOLFrom(_, _, _, _)
EOLFrom(installed, cycleList, i, today) ==
    IF i > Len(cycleList) THEN NoEOLStatus
    ELSE IF versionMatchesCycle(installed, cycleList[i].Cycle)
    THEN parseEOLField(cycleList[i].EOL, today)
    ELSE EOLFrom(installed, cycleList, i + 1, today)

ResolveEOLStatus(installed, cycleList, today) ==
    IF Len(cycleList) = 0 THEN NoEOLStatus ELSE EOLFrom(installed, cycleList, 1, today)

MaxCycles == 2

EOLInstalledPool == {"v1.14.2", "1.14", "v2.0.0", "8"}

CycleLabelPool == {"1.14", "1", "1.14.7", "8", "8.0"}

EOLFieldPool == {BoolField(FALSE), StringField("2027-01-01"), StringField("n/a")}

CyclePool == {[Cycle |-> label, EOL |-> eol] : label \in CycleLabelPool, eol \in EOLFieldPool}

CycleLists == UNION {[1..n -> CyclePool] : n \in 0..MaxCycles}

\* The dates at which ResolveEOLStatus may be called.
Todays == {"2026-01-01", "2028-01-01"}

OutsideEOL ==
    <<resolverVars, matcherVars, pruneVars, pipelineVars, dedupVars, retryVars, validateVars>>

EOLInit ==
    /\ installedVersion \in EOLInstalledPool
    /\ cycles \in CycleLists
    /\ epc = "start"
    /\ eolStatus = NoEOLStatus
    /\ ResolverIdle
    /\ MatcherIdle
    /\ PruneIdle
    /\ PipelineIdle
    /\ DedupIdle
    /\ RetryIdle
    /\ ValidateIdle

\* ResolveEOLStatus from its first line to its return.
ResolveEOL ==
    /\ epc = "start"
    /\ \E today \in Todays : eolStatus' = ResolveEOLStatus(installedVersion, cycles, today)
    /\ epc' = "returned"
    /\ UNCHANGED <<installedVersion, cycles>>
    /\ UNCHANGED OutsideEOL

EOLNext == ResolveEOL

EOLSpec == EOLInit /\ [][EOLNext]_vars

(***************************************************************************)
(* Properties of ResolveEOLStatus                                          *)
(***************************************************************************)

EOLReturned == epc = "returned"

InstalledWithoutV == TrimPrefix(installedVersion, "v")

Components(s) == Split(s, ".")

\* A label matches if it is the installed version, its major (a label of one
\* component) or its major.minor (a label of two components).
LabelMatches(label) ==
    \/ label = InstalledWithoutV
    \/ /\ Len(Components(label)) = 1
       /\ Len(Components(InstalledWithoutV)) >= 2
       /\ label = Components(InstalledWithoutV)[1]
    \/ /\ Len(Components(label)) = 2
       /\ Len(Components(InstalledWithoutV)) >= 2
       /\ label = Components(InstalledWithoutV)[1] \o "." \o Components(InstalledWithoutV)[2]

MatchingCycles == {i \in 1..Len(cycles) : LabelMatches(cycles[i].Cycle)}

FirstMatchingCycle == CHOOSE i \in MatchingCycles : \A j \in MatchingCycles : i <= j

\* C25: the result is the EOL field of the first cycle whose label matches,
\* and (unknown, "") when no label matches.
C25_FirstMatchingCycleDecides ==
    EOLReturned =>
        IF MatchingCycles = {} THEN eolStatus = NoEOLStatus
        ELSE eolStatus \in {parseEOLField(cycles[FirstMatchingCycle].EOL, today) :
                               today \in Todays}

(***************************************************************************)
(* resilience.RetryWithResult                                              *)
(***************************************************************************)

MaxAttempts == 3

\* Lines 40-52: the policy RetryWithResult works with.
attempts == IF policy.Attempts <= 0 THEN 1 ELSE policy.Attempts

Multiplier == IF policy.Multiplier <= 0 THEN 2 ELSE policy.Multiplier

InitialDelay == IF policy.InitialDelay < 0 THEN 0 ELSE policy.InitialDelay

MaxDelay == IF policy.MaxDelay < 0 THEN 0 ELSE policy.MaxDelay

RECURSIVE Pow(_, _)
Pow(base, exponent) == IF exponent = 0 THEN 1 ELSE base * Pow(base, exponent - 1)

\* policy.backoff, with whole multipliers.
backoff(n) ==
    IF n <= 0 \/ InitialDelay <= 0 THEN 0
    ELSE IF MaxDelay > 0 /\ InitialDelay * Pow(Multiplier, n - 1) > MaxDelay THEN MaxDelay
    ELSE InitialDelay * Pow(Multiplier, n - 1)

Policies ==
    [Attempts : -1..MaxAttempts, InitialDelay : {-1, 0, 1}, MaxDelay : {0, 1},
     Multiplier : {0, 2}]

\* The errors the caller's isRetryable accepts.
RetryableErrors == {"timeout", "unexpected eof"}

\* What one call of fn returns: a value, or an error.
FnOutcomes ==
    {[value |-> "v", err |-> ""]}
        \cup {[value |-> "", err |-> e] : e \in RetryableErrors \cup {"terminal"}}

isRetryable(err) == err \in RetryableErrors

ContextCanceled == "context canceled"

\* The zero value of T.
Zero == ""

lastErr == IF Len(calls) = 0 THEN "" ELSE calls[Len(calls)].err

OutsideRetry ==
    <<resolverVars, matcherVars, pruneVars, pipelineVars, dedupVars, eolVars, validateVars>>

RetryInit ==
    /\ policy \in Policies
    /\ cancelled = [done |-> FALSE, after |-> 0]
    /\ attempt = 1
    /\ calls = <<>>
    /\ timerFired = FALSE
    /\ rtpc = "call"
    /\ rtReturn = [value |-> Zero, err |-> ""]
    /\ ResolverIdle
    /\ MatcherIdle
    /\ PruneIdle
    /\ PipelineIdle
    /\ DedupIdle
    /\ EOLIdle
    /\ ValidateIdle

\* The caller cancels ctx while RetryWithResult runs.
Cancel ==
    /\ rtpc \in {"call", "wait"}
    /\ ~cancelled.done
    /\ cancelled' = [done |-> TRUE, after |-> Len(calls)]
    /\ UNCHANGED <<policy, attempt, calls, timerFired, rtpc, rtReturn>>
    /\ UNCHANGED OutsideRetry

\* A faulty variant of ReturnsError: only the last attempt's error is returned.
ReturnsErrorWhenExhausted(n, err) == n = attempts

\* Line 61: the condition under which the error of attempt n is returned.
ReturnsError(n, err) == n = attempts \/ ~isRetryable(err)

RetryReturn(value, err) ==
    /\ rtReturn' = [value |-> value, err |-> err]
    /\ rtpc' = "returned"

\* Lines 55-68 and 82: one iteration of the loop up to the timer, or the
\* return after the loop.
Attempt ==
    /\ rtpc = "call"
    /\ IF attempt > attempts
       THEN /\ RetryReturn(Zero, lastErr)
            /\ UNCHANGED <<attempt, calls, timerFired>>
       ELSE \E r \in FnOutcomes :
                /\ calls' = Append(calls, r)
                /\ IF r.err = ""
                   THEN RetryReturn(r.value, "") /\ UNCHANGED <<attempt, timerFired>>
                   ELSE IF ReturnsError(attempt, r.err)
                   THEN RetryReturn(Zero, r.err) /\ UNCHANGED <<attempt, timerFired>>
                   ELSE IF backoff(attempt) <= 0
                   THEN /\ attempt' = attempt + 1
                        /\ UNCHANGED <<timerFired, rtpc, rtReturn>>
                   ELSE /\ rtpc' = "wait"
                        /\ timerFired' = FALSE
                        /\ UNCHANGED <<attempt, rtReturn>>
    /\ UNCHANGED <<policy, cancelled>>
    /\ UNCHANGED OutsideRetry

\* The timer of line 69 fires.
TimerFires ==
    /\ rtpc = "wait"
    /\ ~timerFired
    /\ timerFired' = TRUE
    /\ UNCHANGED <<policy, cancelled, attempt, calls, rtpc, rtReturn>>
    /\ UNCHANGED OutsideRetry

\* Lines 71-78: the select takes the case of ctx.Done().
SelectDone ==
    /\ rtpc = "wait"
    /\ cancelled.done
    /\ RetryReturn(Zero, ContextCanceled)
    /\ UNCHANGED <<policy, cancelled, attempt, calls, timerFired>>
    /\ UNCHANGED OutsideRetry

\* Line 79: the select takes the case of timer.C, and the loop goes on.
SelectTimer ==
    /\ rtpc = "wait"
    /\ timerFired
    /\ attempt' = attempt + 1
    /\ rtpc' = "call"
    /\ UNCHANGED <<policy, cancelled, calls, timerFired, rtReturn>>
    /\ UNCHANGED OutsideRetry

RetryNext ==
    \/ Cancel
    \/ Attempt
    \/ TimerFires
    \/ SelectDone
    \/ SelectTimer

RetrySpec == RetryInit /\ [][RetryNext]_vars

(***************************************************************************)
(* Properties of RetryWithResult                                           *)
(***************************************************************************)

RetryReturned == rtpc = "returned"

MostCalls == IF policy.Attempts > 1 THEN policy.Attempts ELSE 1

Succeeded(i) == calls[i].err = ""

\* What holds of the calls in every return: there are at most MostCalls of
\* them, no call follows a success or an error isRetryable rejects, the value
\* of a success is returned with a nil error, and a rejected error is returned.
CallsUntilDecided ==
    /\ Len(calls) <= MostCalls
    /\ \A i \in 1..(Len(calls) - 1) : isRetryable(calls[i].err)
    /\ (Len(calls) > 0 /\ Succeeded(Len(calls)))
           => rtReturn = [value |-> calls[Len(calls)].value, err |-> ""]
    /\ (Len(calls) > 0 /\ ~Succeeded(Len(calls)) /\ ~isRetryable(lastErr))
           => rtReturn = [value |-> Zero, err |-> lastErr]

AllFailedRetryable == \A i \in 1..Len(calls) : isRetryable(calls[i].err)

Exhausted == rtReturn = [value |-> Zero, err |-> lastErr] /\ Len(calls) = MostCalls

\* C26: as the claim states it: when every call failed with a retryable error
\* the last error is returned after exactly max(1, Attempts) calls.
C26_LastErrorAfterAllAttempts ==
    RetryReturned => (CallsUntilDecided /\ (AllFailedRetryable => Exhausted))

\* C26: the same, but for a cancellation during a backoff wait, which returns
\* the context's error after fewer calls.
C26_LastErrorUnlessCancelled ==
    RetryReturned =>
        /\ CallsUntilDecided
        /\ AllFailedRetryable =>
               \/ Exhausted
               \/ /\ rtReturn = [value |-> Zero, err |-> ContextCanceled]
                  /\ cancelled.done
                  /\ Len(calls) < MostCalls
                  /\ backoff(Len(calls)) > 0

\* Two retryable failures were followed by a success on the third attempt.
C26_SucceedsOnThirdAttempt ==
    /\ RetryReturned
    /\ Len(calls) = 3
    /\ AllFailedRetryable = FALSE
    /\ Succeeded(3)
    /\ rtReturn.err = ""

\* ctx was cancelled after the latest call, which failed with an error that
\* is retried, and the next attempt has not started.
CancelledBetweenAttempts ==
    /\ rtpc \in {"call", "wait"}
    /\ cancelled.done
    /\ Len(calls) >= 1
    /\ cancelled.after = Len(calls)

\* C27: once ctx is cancelled between two attempts, no step calls fn and a
\* return gives the context's error.
C27_NoCallAfterCancel ==
    [][CancelledBetweenAttempts =>
           /\ calls' = calls
           /\ rtpc' = "returned" => rtReturn'.err = ContextCanceled]_vars

(***************************************************************************)
(* validate.Run: the goroutines of lines 140-154                           *)
(***************************************************************************)

\* The capacity of the channel sem.
semCapacity == 10

MaxTasks == 11

\* What executeTask returns for a task.
ResultOf(t) == [task |-> t]

\* The goroutines at one position.
At(position) == {t \in tasks : gpc[t] = position}

\* The goroutines run the same code on tasks that differ only in their URL.
\* Of the goroutines at one position the model lets the one of the least task
\* take the step; any other interleaving is one of these with the tasks
\* renamed.
Steps(t, position) == gpc[t] = position /\ \A u \in At(position) : t <= u

\* A faulty variant of CanSend: the channel never blocks.
CanSendAlways(tokens) == TRUE

\* A send on sem goes through while the channel is not full.
CanSend(tokens) == tokens < semCapacity

OutsideValidate ==
    <<resolverVars, matcherVars, pruneVars, pipelineVars, dedupVars, eolVars, retryVars>>

ValidateInit ==
    /\ tasks \in {1..n : n \in 1..MaxTasks}
    /\ vpc = "spawn"
    /\ gpc = [t \in tasks |-> "unspawned"]
    /\ sem = 0
    /\ mu = 0
    /\ wg = 0
    /\ urlResults = <<>>
    /\ executed = [t \in tasks |-> 0]
    /\ ResolverIdle
    /\ MatcherIdle
    /\ PruneIdle
    /\ PipelineIdle
    /\ DedupIdle
    /\ EOLIdle
    /\ RetryIdle

\* Lines 140-142: wg.Add(1) and the go statement for the next task.
Spawn ==
    /\ vpc = "spawn"
    /\ \E t \in tasks :
           /\ Steps(t, "unspawned")
           /\ gpc' = [gpc EXCEPT ![t] = "start"]
    /\ wg' = wg + 1
    /\ UNCHANGED <<tasks, vpc, sem, mu, urlResults, executed>>
    /\ UNCHANGED OutsideValidate

\* The loop of line 140 ends and Run calls wg.Wait().
AllSpawned ==
    /\ vpc = "spawn"
    /\ At("unspawned") = {}
    /\ vpc' = "wait"
    /\ UNCHANGED <<tasks, gpc, sem, mu, wg, urlResults, executed>>
    /\ UNCHANGED OutsideValidate

\* Line 144: sem <- struct{}{}.
Acquire ==
    /\ CanSend(sem)
    /\ \E t \in tasks :
           /\ Steps(t, "start")
           /\ gpc' = [gpc EXCEPT ![t] = "running"]
    /\ sem' = sem + 1
    /\ UNCHANGED <<tasks, vpc, mu, wg, urlResults, executed>>
    /\ UNCHANGED OutsideValidate

\* Line 147: executeTask returns.
Execute ==
    /\ \E t \in tasks :
           /\ Steps(t, "running")
           /\ gpc' = [gpc EXCEPT ![t] = "executed"]
           /\ executed' = [executed EXCEPT ![t] = @ + 1]
    /\ UNCHANGED <<tasks, vpc, sem, mu, wg, urlResults>>
    /\ UNCHANGED OutsideValidate

\* Line 149: mu.Lock().
Lock ==
    /\ mu = 0
    /\ \E t \in tasks :
           /\ Steps(t, "executed")
           /\ gpc' = [gpc EXCEPT ![t] = "locked"]
           /\ mu' = t
    /\ UNCHANGED <<tasks, vpc, sem, wg, urlResults, executed>>
    /\ UNCHANGED OutsideValidate

\* Line 150: results[task.url] = result.
Store ==
    /\ \E t \in tasks :
           /\ Steps(t, "locked")
           /\ gpc' = [gpc EXCEPT ![t] = "written"]
           /\ urlResults' = [u \in DOMAIN urlResults \cup {t} |->
                                IF u = t THEN ResultOf(t) ELSE urlResults[u]]
    /\ UNCHANGED <<tasks, vpc, sem, mu, wg, executed>>
    /\ UNCHANGED OutsideValidate

\* Line 151: mu.Unlock().
Unlock ==
    /\ \E t \in tasks :
           /\ Steps(t, "written")
           /\ mu = t
           /\ gpc' = [gpc EXCEPT ![t] = "stored"]
    /\ mu' = 0
    /\ UNCHANGED <<tasks, vpc, sem, wg, urlResults, executed>>
    /\ UNCHANGED OutsideValidate

\* Line 145, deferred: <-sem.
Release ==
    /\ \E t \in tasks :
           /\ Steps(t, "stored")
           /\ gpc' = [gpc EXCEPT ![t] = "released"]
    /\ sem' = sem - 1
    /\ UNCHANGED <<tasks, vpc, mu, wg, urlResults, executed>>
    /\ UNCHANGED OutsideValidate

\* Line 143, deferred: wg.Done().
Done ==
    /\ \E t \in tasks :
           /\ Steps(t, "released")
           /\ gpc' = [gpc EXCEPT ![t] = "done"]
    /\ wg' = wg - 1
    /\ UNCHANGED <<tasks, vpc, sem, mu, urlResults, executed>>
    /\ UNCHANGED OutsideValidate

\* Lines 154-156: wg.Wait() returns and Run goes on to report.
Wait ==
    /\ vpc = "wait"
    /\ wg = 0
    /\ vpc' = "report"
    /\ UNCHANGED <<tasks, gpc, sem, mu, wg, urlResults, executed>>
    /\ UNCHANGED OutsideValidate

ValidateNext ==
    \/ Spawn
    \/ AllSpawned
    \/ Acquire
    \/ Execute
    \/ Lock
    \/ Store
    \/ Unlock
    \/ Release
    \/ Done
    \/ Wait

ValidateSpec == ValidateInit /\ [][ValidateNext]_vars

(***************************************************************************)
(* Properties of validate.Run                                              *)
(***************************************************************************)

\* The executeTask calls in flight.
InFlight == At("running")

\* C30: at most semCapacity executeTask calls are in flight, no task is
\* executed twice, some step is possible until Run goes on to report, and by
\* then every task was executed once and results holds its result.
C30_BoundedPoolCompleteResults ==
    /\ Cardinality(InFlight) <= semCapacity
    /\ \A t \in tasks : executed[t] <= 1
    /\ vpc # "report" => ENABLED ValidateNext
    /\ vpc = "report" =>
           /\ DOMAIN urlResults = tasks
           /\ \A t \in tasks : executed[t] = 1 /\ urlResults[t] = ResultOf(t)

\* A goroutine waits at the full channel while ten calls are in flight.
C30_GoroutineWaitsAtFullPool ==
    /\ sem = semCapacity
    /\ Cardinality(InFlight) = semCapacity
    /\ At("start") # {}

====
